---- MODULE Spec2Model ----
(***************************************************************************)
(* Model of the question generation pipeline of llm/Apply:                 *)
(*   distractor_computer.py  DistractorComputer                            *)
(*   validators.py           QuestionValidator.validate_distractors        *)
(*   pipeline.py             QuestionPipeline.generate_one_question        *)
(*                                                                         *)
(* Python strings are modelled as sequences of one-character strings, so   *)
(* that strip, lower, upper, replace, startswith, `in` and str() are       *)
(* computed character by character.  Python values are records            *)
(*   [t, i, s, l]  t: type tag, i: integer payload, s: characters,          *)
(*                 l: list payload                                          *)
(* with t in "int", "float", "bool", "none", "str", "list", "dict".         *)
(* A float is kept exactly as a count of quarters (i = 4 * value).          *)
(***************************************************************************)
EXTENDS Integers, Sequences, FiniteSets, TLC

(***************************************************************************)
(* Characters and strings                                                  *)
(***************************************************************************)
LowerLetters ==
  <<"a","b","c","d","e","f","g","h","i","j","k","l","m",
    "n","o","p","q","r","s","t","u","v","w","x","y","z">>

UpperLetters ==
  <<"A","B","C","D","E","F","G","H","I","J","K","L","M",
    "N","O","P","Q","R","S","T","U","V","W","X","Y","Z">>

Digits ==
  <<"0","1","2","3","4","5","6","7","8","9">>

IndexOf(c, tab) ==
  IF \E k \in 1..Len(tab) : tab[k] = c
  THEN CHOOSE k \in 1..Len(tab) : tab[k] = c
  ELSE 0

LowerChar(c) ==
  IF IndexOf(c, UpperLetters) > 0 THEN LowerLetters[IndexOf(c, UpperLetters)] ELSE c

UpperChar(c) ==
  IF IndexOf(c, LowerLetters) > 0 THEN UpperLetters[IndexOf(c, LowerLetters)] ELSE c

Lower(s) ==
  [k \in 1..Len(s) |-> LowerChar(s[k])]

Upper(s) ==
  [k \in 1..Len(s) |-> UpperChar(s[k])]

IsSpace(c) ==
  c = " "

RECURSIVE LStrip(_)
LStrip(s) ==
  IF s # <<>> /\ IsSpace(Head(s)) THEN LStrip(Tail(s)) ELSE s

RECURSIVE RStrip(_)
RStrip(s) ==
  IF s # <<>> /\ IsSpace(s[Len(s)]) THEN RStrip(SubSeq(s, 1, Len(s) - 1)) ELSE s

Strip(s) ==
  RStrip(LStrip(s))

RECURSIVE LStripChar(_, _)
LStripChar(s, c) ==
  IF s # <<>> /\ Head(s) = c THEN LStripChar(Tail(s), c) ELSE s

RemoveChar(s, c) ==
  SelectSeq(s, LAMBDA x : x # c)

StartsWith(s, p) ==
  Len(p) =< Len(s) /\ SubSeq(s, 1, Len(p)) = p

Contains(s, sub) ==
  \E k \in 0..(Len(s) - Len(sub)) : SubSeq(s, k + 1, k + Len(sub)) = sub

HasChar(s, c) ==
  \E k \in 1..Len(s) : s[k] = c

IsDigitStr(s) ==
  s # <<>> /\ \A k \in 1..Len(s) : IndexOf(s[k], Digits) > 0

RECURSIVE DigitsVal(_)
DigitsVal(s) ==
  IF s = <<>> THEN 0
  ELSE 10 * DigitsVal(SubSeq(s, 1, Len(s) - 1)) + (IndexOf(s[Len(s)], Digits) - 1)

RECURSIVE NatStr(_)
NatStr(n) ==
  IF n < 10 THEN <<Digits[n + 1]>>
  ELSE NatStr(n \div 10) \o <<Digits[(n % 10) + 1]>>

IntStr(n) ==
  IF n < 0 THEN <<"-">> \o NatStr(0 - n) ELSE NatStr(n)

Pow10(k) ==
  IF k = 0 THEN 1 ELSE IF k = 1 THEN 10 ELSE IF k = 2 THEN 100 ELSE 1000

(***************************************************************************)
(* String constants of the source                                          *)
(***************************************************************************)
sTrue == <<"t","r","u","e">>
sFalse == <<"f","a","l","s","e">>
sNull == <<"n","u","l","l">>
sUndefined == <<"u","n","d","e","f","i","n","e","d">>
sNone == <<"n","o","n","e">>
sError == <<"E","r","r","o","r">>
sPyTrue == <<"T","r","u","e">>
sPyFalse == <<"F","a","l","s","e">>
sPyNone == <<"N","o","n","e">>
sProcess == <<"p","r","o","c","e","s","s">>
sRecursive == <<"r","e","c","u","r","s","i","v","e">>
sInf == <<"i","n","f">>
sInfinity == <<"i","n","f","i","n","i","t","y">>
sNan == <<"n","a","n">>
sO1 == <<"O","(","1",")">>
sOlogn == <<"O","(","l","o","g"," ","n",")">>
sOn == <<"O","(","n",")">>
sOnlogn == <<"O","(","n"," ","l","o","g"," ","n",")">>
sOn2 == <<"O","(","n","^","2",")">>
sO2n == <<"O","(","2","^","n",")">>
sIterativeProcess == <<"I","t","e","r","a","t","i","v","e"," ","P","r","o","c","e","s","s">>
sRecursiveProcess == <<"R","e","c","u","r","s","i","v","e"," ","P","r","o","c","e","s","s">>
sO1Space == <<"O","(","1",")"," ","S","p","a","c","e">>
sOnSpace == <<"O","(","n",")"," ","S","p","a","c","e">>
sTailRecursive == <<"T","a","i","l"," ","R","e","c","u","r","s","i","v","e">>
sNotRecursive == <<"N","o","t"," ","R","e","c","u","r","s","i","v","e">>
sList1 == <<"[","1",","," ","n","u","l","l","]">>
sList0 == <<"[","0",","," ","n","u","l","l","]">>

(***************************************************************************)
(* Python values                                                           *)
(***************************************************************************)
PyInt(n) == [t |-> "int", i |-> n, s |-> <<>>, l |-> <<>>]
PyFloat(q) == [t |-> "float", i |-> q, s |-> <<>>, l |-> <<>>]
PyBool(b) == [t |-> "bool", i |-> IF b THEN 1 ELSE 0, s |-> <<>>, l |-> <<>>]
PyNone == [t |-> "none", i |-> 0, s |-> <<>>, l |-> <<>>]
PyStr(s) == [t |-> "str", i |-> 0, s |-> s, l |-> <<>>]
PyList(l) == [t |-> "list", i |-> 0, s |-> <<>>, l |-> l]
PyDict(v) == [t |-> "dict", i |-> 0, s |-> <<>>, l |-> <<v>>]

IsNum(v) == v.t \in {"int", "float"}

\* isinstance(v, (int, float)): bool is a subclass of int
IsIntOrFloatInstance(v) == v.t \in {"int", "float", "bool"}

(***************************************************************************)
(* str(), int() and float() of Python, on the value model                  *)
(***************************************************************************)
QuarterFrac ==
  << <<"0">>, <<"2","5">>, <<"5">>, <<"7","5">> >>

\* str() of a float whose value is q/4 (repr of a binary-exact decimal)
FloatStr(q) ==
  LET a == IF q < 0 THEN 0 - q ELSE q
  IN  (IF q < 0 THEN <<"-">> ELSE <<>>) \o NatStr(a \div 4) \o <<".">> \o QuarterFrac[(a % 4) + 1]

RECURSIVE PyRepr(_)
RECURSIVE JoinRepr(_)
\* ", ".join(repr(e) for e in l)
JoinRepr(l) ==
  IF l = <<>> THEN <<>>
  ELSE IF Len(l) = 1 THEN PyRepr(l[1])
  ELSE PyRepr(l[1]) \o <<",", " ">> \o JoinRepr(Tail(l))

\* str() of a value; for a str it is the string itself
PyStrOf(v) ==
  CASE v.t = "int" -> IntStr(v.i)
    [] v.t = "float" -> FloatStr(v.i)
    [] v.t = "bool" -> IF v.i = 1 THEN sPyTrue ELSE sPyFalse
    [] v.t = "none" -> sPyNone
    [] v.t = "str" -> v.s
    [] v.t = "list" -> <<"[">> \o JoinRepr(v.l) \o <<"]">>
    [] OTHER -> <<"{", "'", "v", "a", "l", "u", "e", "'", ":", " ">> \o JoinRepr(v.l) \o <<"}">>

PyRepr(v) ==
  IF v.t = "str" THEN <<"'">> \o v.s \o <<"'">> ELSE PyStrOf(v)

\* int(s) for s already stripped: an optional sign and decimal digits.
\* Returns [ok, val]; ok = FALSE stands for ValueError.
IntParse(s) ==
  LET body == IF s # <<>> /\ Head(s) \in {"-", "+"} THEN Tail(s) ELSE s
  IN  IF IsDigitStr(body)
      THEN [ok |-> TRUE, val |-> IF s[1] = "-" THEN 0 - DigitsVal(body) ELSE DigitsVal(body)]
      ELSE [ok |-> FALSE, val |-> 0]

\* position of the first "." of s, 0 when there is none
DotPos(s) ==
  IF HasChar(s, ".") THEN CHOOSE k \in 1..Len(s) : s[k] = "." /\ \A j \in 1..(k - 1) : s[j] # "." ELSE 0

\* float(s) for s already stripped.  Returns [ok, kind, q]: kind "dec" is a
\* decimal literal of value q/4 (fractions of at most three digits; the
\* literals drawn as inputs have fractions that are whole quarters), kind
\* "special" is inf, infinity or nan; ok = FALSE stands for ValueError.
\* Exponent and underscore literals are not drawn as inputs.
FloatParse(s) ==
  LET signed == s # <<>> /\ Head(s) \in {"-", "+"}
      body == IF signed THEN Tail(s) ELSE s
      neg == signed /\ Head(s) = "-"
      dp == DotPos(body)
      ip == IF dp = 0 THEN body ELSE SubSeq(body, 1, dp - 1)
      fp == IF dp = 0 THEN <<>> ELSE SubSeq(body, dp + 1, Len(body))
      decOk == /\ ip \o fp # <<>>
               /\ ip = <<>> \/ IsDigitStr(ip)
               /\ fp = <<>> \/ (IsDigitStr(fp) /\ Len(fp) =< 3)
      mag == 4 * DigitsVal(ip) + ((4 * DigitsVal(fp)) \div Pow10(Len(fp)))
  IN  IF Lower(body) \in {sInf, sInfinity, sNan}
      THEN [ok |-> TRUE, kind |-> "special", q |-> 0]
      ELSE IF decOk
      THEN [ok |-> TRUE, kind |-> "dec", q |-> IF neg THEN 0 - mag ELSE mag]
      ELSE [ok |-> FALSE, kind |-> "none", q |-> 0]

\* _parse_value whose integer test forgets the sign
ParseValueUnsigned(value) ==
  IF value.t # "str" THEN value
  ELSE IF IsDigitStr(Strip(value.s)) THEN PyInt(DigitsVal(Strip(value.s)))
  ELSE PyStr(Strip(value.s))

(***************************************************************************)
(* DistractorComputer._parse_value and _get_value_type                     *)
(***************************************************************************)
ParseValue(value) ==
  IF value.t # "str" THEN value
  ELSE LET value_str == Strip(value.s)
           low == Lower(value_str)
       IN  IF low = sTrue THEN PyBool(TRUE)
           ELSE IF low = sFalse THEN PyBool(FALSE)
           ELSE IF low \in {sNull, sUndefined, sNone} THEN PyNone
           ELSE IF ~HasChar(value_str, ".") /\ IsDigitStr(LStripChar(value_str, "-"))
                   /\ IntParse(value_str).ok
                THEN PyInt(IntParse(value_str).val)
           ELSE IF (HasChar(value_str, ".") \/ HasChar(low, "e"))
                   /\ FloatParse(value_str).ok /\ FloatParse(value_str).kind = "dec"
                THEN PyFloat(FloatParse(value_str).q)
           ELSE PyStr(value_str)

GetValueType(value) ==
  IF value.t = "bool" THEN "boolean"
  ELSE IF value.t \in {"int", "float"} THEN "numeric"
  ELSE IF value.t = "str"
  THEN \* "Theta" and "Omega" stand for the single characters U+0398 and U+03A9
       IF StartsWith(value.s, <<"O", "(">>) \/ StartsWith(value.s, <<"Theta", "(">>)
             \/ StartsWith(value.s, <<"Omega", "(">>)
       THEN "complexity"
       ELSE IF HasChar(value.s, "[") \/ Contains(Lower(value.s), sNull) THEN "list"
       ELSE IF Contains(Lower(value.s), sProcess) THEN "process"
       ELSE IF FloatParse(Strip(value.s)).ok THEN "numeric"
       ELSE "string"
  ELSE "string"

(***************************************************************************)
(* DistractorComputer._parse_list_structure (string branch) and            *)
(* _list_to_source                                                         *)
(***************************************************************************)
\* one element of the scan: int(elem), else float(elem), else the text
ListElem(elem) ==
  IF IntParse(elem).ok THEN PyInt(IntParse(elem).val)
  ELSE IF FloatParse(elem).ok /\ FloatParse(elem).kind = "dec" THEN PyFloat(FloatParse(elem).q)
  ELSE PyStr(elem)

\* elements after the pending text current_elem is closed by "," or "]"
FlushElem(elements, current_elem) ==
  LET elem == Strip(current_elem)
  IN  IF elem # <<>> /\ Lower(elem) # sNull THEN Append(elements, ListElem(elem)) ELSE elements

\* the scan state after one character; st = [depth, cur, els, brk]
ScanChar(st, char) ==
  IF st.brk THEN st
  ELSE IF char = "["
  THEN IF st.depth + 1 = 1
       THEN [st EXCEPT !.depth = 1]
       ELSE [st EXCEPT !.depth = st.depth + 1, !.cur = st.cur \o <<char>>]
  ELSE IF char = "]"
  THEN IF st.depth - 1 = 0
       THEN [st EXCEPT !.depth = 0, !.els = FlushElem(st.els, st.cur), !.brk = TRUE]
       ELSE [st EXCEPT !.depth = st.depth - 1,
                       !.cur = IF st.depth - 1 >= 1 THEN st.cur \o <<char>> ELSE st.cur]
  ELSE IF char = "," /\ st.depth = 1
  THEN [st EXCEPT !.els = FlushElem(st.els, st.cur), !.cur = <<>>]
  ELSE IF st.depth >= 1 THEN [st EXCEPT !.cur = st.cur \o <<char>>] ELSE st

RECURSIVE ScanFrom(_, _, _)
ScanFrom(st, s, k) ==
  IF k > Len(s) THEN st ELSE ScanFrom(ScanChar(st, s[k]), s, k + 1)

\* [ok, l]: ok = FALSE stands for the result None
ParseListStructure(value) ==
  IF value.t = "list" THEN [ok |-> TRUE, l |-> value.l]
  ELSE IF value.t # "str" THEN [ok |-> FALSE, l |-> <<>>]
  ELSE LET s == Strip(value.s)
       IN  IF ~StartsWith(s, <<"[">>) THEN [ok |-> FALSE, l |-> <<>>]
           ELSE [ok |-> TRUE,
                 l |-> ScanFrom([depth |-> 0, cur |-> <<>>, els |-> <<>>, brk |-> FALSE], s, 1).els]

Reversed(l) ==
  [k \in 1..Len(l) |-> l[Len(l) + 1 - k]]

RECURSIVE ListToSource(_)
ListToSource(elements) ==
  IF elements = <<>> THEN sNull
  ELSE LET elem == Head(elements)
           elem_str == IF elem.t = "list" THEN ListToSource(elem.l) ELSE PyStrOf(elem)
       IN  <<"[">> \o elem_str \o <<",", " ">> \o ListToSource(Tail(elements)) \o <<"]">>

(***************************************************************************)
(* Distractors: a value and the misconception tag (the explanation text    *)
(* is not modelled, no code reads it)                                      *)
(***************************************************************************)
D(v, m) == [value |-> v, misconception |-> m]

Opt(cond, d) == IF cond THEN <<d>> ELSE <<>>

\* arithmetic of Python on int and float values
NumPlus(v, k) == IF v.t = "float" THEN PyFloat(v.i + 4 * k) ELSE PyInt(v.i + k)
NumDouble(v) == IF v.t = "float" THEN PyFloat(2 * v.i) ELSE PyInt(2 * v.i)
\* correct // 2 on an int (floor), correct / 2 on a float (halves are drawn)
NumHalf(v) == IF v.t = "float" THEN PyFloat(v.i \div 2) ELSE PyInt(v.i \div 2)
\* the value in quarters, for comparisons between int and float
Quarters(v) == IF v.t = "float" THEN v.i ELSE 4 * v.i
NumGt(v, k) == Quarters(v) > 4 * k
NumEqInt(v, k) == Quarters(v) = 4 * k

RECURSIVE Factorial(_)
Factorial(n) == IF n =< 1 THEN 1 ELSE n * Factorial(n - 1)

RecursionConcepts == {"recursion", "recursion_process", "iterative_process"}
ListConcepts == {"list_library", "lists", "map", "filter", "accumulate"}
GrowthConcepts == {"orders_of_growth", "recurrence_relations"}
ScopeConcepts == {"higher_order_functions", "scope_lexical"}

(***************************************************************************)
(* DistractorComputer.generate_numeric_distractors                         *)
(* gt = [pairs, accumulate]: ground_truth.get('pairs', 0) and whether      *)
(* 'accumulate' occurs in str(ground_truth).lower()                        *)
(***************************************************************************)
FactorialDistractor(correct) ==
  IF NumGt(correct, 10) /\ \E n \in 2..9 : NumEqInt(correct, Factorial(n))
  THEN LET n == CHOOSE m \in 2..9 : NumEqInt(correct, Factorial(m))
       IN  <<D(PyInt(Factorial(n - 1)), "factorial_off_by_one")>>
  ELSE <<>>

GenerateNumericDistractors(correct_value, concept, gt) ==
  LET correct == IF correct_value.t = "float" /\ correct_value.i % 4 = 0
                 THEN PyInt(correct_value.i \div 4) ELSE correct_value
      is_int == correct.t = "int"
      pair_count == gt.pairs
  IN  Opt(NumGt(correct, 0), D(NumPlus(correct, -1), "off_by_one_minus"))
      \o <<D(NumPlus(correct, 1), "off_by_one_plus")>>
      \o Opt(pair_count > 0 /\ ~NumEqInt(correct, pair_count),
             D(PyInt(pair_count), "confused_with_pair_count"))
      \o (IF concept \in RecursionConcepts
          THEN (IF ~NumEqInt(correct, 0) /\ ~NumEqInt(correct, 1)
                THEN <<D(PyInt(0), "wrong_base_case_zero"), D(PyInt(1), "wrong_base_case_one")>>
                ELSE <<>>)
               \o Opt(NumGt(correct, 2), D(NumPlus(correct, -2), "off_by_two_recursion"))
          ELSE <<>>)
      \o (IF concept \in ListConcepts
          THEN Opt(NumGt(correct, 1), D(NumHalf(correct), "half_list_processed"))
               \o Opt(gt.accumulate, D(NumDouble(correct), "accumulate_wrong_init"))
          ELSE <<>>)
      \o (IF concept \in GrowthConcepts THEN FactorialDistractor(correct) ELSE <<>>)
      \o (IF concept \in ScopeConcepts
          THEN Opt(~NumEqInt(correct, 0), D(PyInt(0), "closure_wrong_binding"))
          ELSE <<>>)
      \o (IF NumGt(correct, 2)
          THEN <<D(NumDouble(correct), "doubled_result")>>
               \o Opt(is_int, D(NumHalf(correct), "halved_result"))
          ELSE <<>>)

(***************************************************************************)
(* DistractorComputer.generate_list_distractors                            *)
(***************************************************************************)
GenerateListDistractors(correct_list, concept, gt) ==
  LET n == Len(correct_list)
      allNum == \A k \in 1..n : correct_list[k].t \in {"int", "float", "bool"}
      wrong_transform == [k \in 1..n |-> NumPlus(correct_list[k], 1)]
      partial == <<NumDouble(correct_list[1])>> \o Tail(correct_list)
  IN  IF n = 0 THEN <<D(PyStr(sList1), "off_by_one_empty")>>
      ELSE Opt(n > 1, D(PyStr(ListToSource(SubSeq(correct_list, 1, n - 1))), "missing_last_element"))
           \o <<D(PyStr(ListToSource(Tail(correct_list))), "missing_first_element")>>
           \o Opt(n >= 2, D(PyStr(ListToSource(Reversed(correct_list))), "reversed_order"))
           \o (IF concept \in {"map", "list_library"} /\ allNum
               THEN Opt(wrong_transform # correct_list,
                        D(PyStr(ListToSource(wrong_transform)), "wrong_transformation"))
                    \o Opt(n > 1 /\ Quarters(partial[1]) # Quarters(correct_list[1]),
                           D(PyStr(ListToSource(partial)), "partial_map"))
               ELSE <<>>)
           \o Opt(concept = "filter" /\ n > 0 /\ n < 5, D(PyStr(sNull), "filter_all_removed"))
           \o Opt(n >= 2, D(PyStr(ListToSource(<<PyList(correct_list)>>)), "extra_nesting"))

(***************************************************************************)
(* DistractorComputer.generate_complexity_distractors                      *)
(***************************************************************************)
\* confusion_map in declaration order: the normalised key and its entries
ConfusionMap ==
  << [pattern |-> <<"O","(","1",")">>,
      ds |-> <<D(PyStr(sOn), "assumes_linear_scan"), D(PyStr(sOlogn), "confuses_with_binary")>>],
     [pattern |-> <<"O","(","L","O","G","N",")">>,
      ds |-> <<D(PyStr(sO1), "ignores_recursion_depth"), D(PyStr(sOn), "linear_not_log")>>],
     [pattern |-> <<"O","(","N",")">>,
      ds |-> <<D(PyStr(sO1), "ignored_recursion"), D(PyStr(sOn2), "saw_nested_structure"),
               D(PyStr(sOlogn), "thought_dividing")>>],
     [pattern |-> <<"O","(","N","L","O","G","N",")">>,
      ds |-> <<D(PyStr(sOn2), "wrong_recurrence"), D(PyStr(sOn), "ignored_tree_depth")>>],
     [pattern |-> <<"O","(","N","^","2",")">>,
      ds |-> <<D(PyStr(sOn), "miscounted_nested_loops"), D(PyStr(sOnlogn), "assumed_divide_conquer")>>],
     [pattern |-> <<"O","(","2","^","N",")">>,
      ds |-> <<D(PyStr(sOn2), "polynomial_exponential_confusion"), D(PyStr(sOn), "ignored_branching")>>] >>

DefaultComplexity ==
  <<D(PyStr(sOn), "default_linear"), D(PyStr(sOn2), "default_quadratic"),
    D(PyStr(sO1), "default_constant")>>

\* correct_complexity.replace(' ', '').upper()
NormalizeComplexity(s) ==
  Upper(RemoveChar(s, " "))

MapMatches(k, correct_normalized) ==
  \/ Contains(correct_normalized, ConfusionMap[k].pattern)
  \/ Contains(ConfusionMap[k].pattern, correct_normalized)

GenerateComplexityDistractors(correct_complexity) ==
  LET correct_normalized == NormalizeComplexity(correct_complexity)
      hits == {k \in 1..Len(ConfusionMap) : MapMatches(k, correct_normalized)}
  IN  IF hits # {}
      THEN ConfusionMap[CHOOSE k \in hits : \A j \in hits : k =< j].ds
      ELSE DefaultComplexity

(***************************************************************************)
(* DistractorComputer.generate_process_distractors                         *)
(***************************************************************************)
GenerateProcessDistractors(correct_process) ==
  IF Contains(Lower(correct_process), sRecursive)
  THEN <<D(PyStr(sIterativeProcess), "process_type_confusion"),
         D(PyStr(sO1Space), "space_confusion"),
         D(PyStr(sTailRecursive), "tail_call_confusion")>>
  ELSE <<D(PyStr(sRecursiveProcess), "process_type_confusion"),
         D(PyStr(sOnSpace), "space_confusion"),
         D(PyStr(sNotRecursive), "function_vs_process")>>

(***************************************************************************)
(* State                                                                   *)
(***************************************************************************)
VARIABLES
  concept,            \* generate_smart_distractors: argument concept
  correct_answer,     \* argument correct_answer
  ground_truth,       \* argument ground_truth, as [pairs, accumulate]
  num_distractors,    \* argument num_distractors
  dpc,                \* position in generate_smart_distractors:
                      \*   "idle", "call", "pad" (at the head of the while loop,
                      \*   with too few distractors), "done", "raised"
  unique_distractors, \* local unique_distractors
  seen_values,        \* local seen_values
  result,             \* the returned list
  vd_correct,         \* validate_distractors: argument correct_answer
  vd_distractors,     \* argument distractors
  vd_result,          \* its result [called, valid, errors]
  chapter,            \* generate_one_question: argument chapter
  max_retries,        \* argument max_retries
  validate_quality,   \* argument validate_quality
  quality_threshold,  \* self.quality_threshold
  ppc,                \* position in generate_one_question
  attempt,            \* the loop variable attempt (attempts started so far)
  att,                \* the locals of the current attempt
  ret,                \* what generate_one_question returned
  num_questions,      \* generate_batch: argument num_questions
  batch_i,            \* the loop variable i (questions asked for so far)
  questions,          \* local questions; of each question dict the fields
                      \*   generate_batch reads, and the iteration that made it
  bpc,                \* position in generate_batch
  fcall               \* one call of a function on its own: [fn, args, done, out]

dcVars == <<concept, correct_answer, ground_truth, num_distractors, dpc,
            unique_distractors, seen_values, result>>

vdVars == <<vd_correct, vd_distractors, vd_result>>

plVars == <<chapter, max_retries, validate_quality, quality_threshold, ppc, attempt, att, ret>>

\* the frame of the caller, which no callee touches
outerVars == <<num_questions, batch_i, questions, bpc, fcall>>

vars == <<dcVars, vdVars, plVars, outerVars>>

(***************************************************************************)
(* DistractorComputer.generate_smart_distractors                           *)
(***************************************************************************)
ParsedAnswer == ParseValue(correct_answer)
ValueType == GetValueType(ParsedAnswer)

FallbackList ==
  <<D(PyStr(sNull), "empty_result"), D(PyStr(sList0), "wrong_element")>>

BooleanDistractors(parsed_answer) ==
  <<D(PyBool(parsed_answer.i = 0), "boolean_inversion"), D(PyStr(sUndefined), "undefined_check")>>

StringDistractors ==
  <<D(PyStr(sUndefined), "undefined_result"), D(PyStr(sError), "runtime_error")>>

\* lines 553-591: the candidates by value type.  A str that float() accepts
\* is typed numeric and generate_numeric_distractors raises TypeError on
\* its first comparison: raised = TRUE.
Candidates(c, answer, gt) ==
  LET parsed_answer == ParseValue(answer)
      value_type == GetValueType(parsed_answer)
      parsed_list == ParseListStructure(answer)
  IN  CASE value_type = "numeric" ->
             IF parsed_answer.t = "str" THEN [raised |-> TRUE, ds |-> <<>>]
             ELSE [raised |-> FALSE, ds |-> GenerateNumericDistractors(parsed_answer, c, gt)]
        [] value_type = "list" ->
             [raised |-> FALSE,
              ds |-> IF parsed_list.ok THEN GenerateListDistractors(parsed_list.l, c, gt)
                     ELSE FallbackList]
        [] value_type = "complexity" ->
             [raised |-> FALSE, ds |-> GenerateComplexityDistractors(PyStrOf(parsed_answer))]
        [] value_type = "boolean" ->
             [raised |-> FALSE, ds |-> BooleanDistractors(parsed_answer)]
        [] value_type = "process" ->
             [raised |-> FALSE, ds |-> GenerateProcessDistractors(PyStrOf(parsed_answer))]
        [] OTHER -> [raised |-> FALSE, ds |-> StringDistractors]

\* the mutant keeps every candidate, seen or not
DedupKeepAll(st, ds, k) ==
  [seen |-> st.seen \cup {PyStrOf(ds[j].value) : j \in k..Len(ds)},
   unique |-> st.unique \o SubSeq(ds, k, Len(ds))]

\* lines 593-601: st = [seen, unique] after the candidates ds[k..]
RECURSIVE Dedup(_, _, _)
Dedup(st, ds, k) ==
  IF k > Len(ds) THEN st
  ELSE LET val_str == PyStrOf(ds[k].value)
       IN  IF val_str \notin st.seen
           THEN Dedup([seen |-> st.seen \cup {val_str}, unique |-> Append(st.unique, ds[k])], ds, k + 1)
           ELSE Dedup(st, ds, k + 1)

\* the mutant slices from the end, [-n:] for [:n]
TakeLast(l, n) ==
  SubSeq(l, IF Len(l) < n THEN 1 ELSE Len(l) - n + 1, Len(l))

\* line 666: unique_distractors[:num_distractors]
Take(l, n) ==
  SubSeq(l, 1, IF Len(l) < n THEN Len(l) ELSE n)

\* the loop test of line 604 and the return of line 666: leave the loop on
\* break or when there are enough distractors, and return the first n
LoopStep(unique, seen, brk, n) ==
  /\ unique_distractors' = unique
  /\ seen_values' = seen
  /\ IF brk \/ Len(unique) >= n
     THEN dpc' = "done" /\ result' = Take(unique, n)
     ELSE dpc' = "pad" /\ result' = <<>>

\* lines 549-604: parse, dispatch, deduplicate, first loop test
GenCall(c, answer, gt, n) ==
  LET cand == Candidates(c, answer, gt)
      st == Dedup([seen |-> {PyStrOf(answer), PyStrOf(ParseValue(answer))}, unique |-> <<>>],
                  cand.ds, 1)
  IN  /\ concept' = c
      /\ correct_answer' = answer
      /\ ground_truth' = gt
      /\ num_distractors' = n
      /\ IF cand.raised
         THEN /\ dpc' = "raised"
              /\ unique_distractors' = <<>>
              /\ seen_values' = {}
              /\ result' = <<>>
         ELSE LoopStep(st.unique, st.seen, FALSE, n)

GenerateSmartDistractors ==
  /\ dpc = "call"
  /\ ppc = "idle"
  /\ GenCall(concept, correct_answer, ground_truth, num_distractors)
  /\ UNCHANGED <<outerVars, vdVars, plVars>>

PadOffsets == {-3, 3, -4, 4, -5, 5, -10, 10}

\* the mutant takes a negative value too
PadAcceptsAnySign(new_val, seen) ==
  PyStrOf(new_val) \notin seen

\* line 609: new_val >= 0 and str(new_val) not in seen_values
PadAccepts(new_val, seen) ==
  Quarters(new_val) >= 0 /\ PyStrOf(new_val) \notin seen

\* lines 605-627: one iteration of the loop for a numeric answer
PadNumeric ==
  /\ dpc = "pad"
  /\ ValueType = "numeric"
  /\ \E offset \in PadOffsets :
       LET new_val == NumPlus(ParsedAnswer, offset)
           alt_val == NumPlus(NumDouble(ParsedAnswer), 1)
       IN  IF PadAccepts(new_val, seen_values)
           THEN LoopStep(Append(unique_distractors, D(new_val, "arithmetic_error")),
                         seen_values \cup {PyStrOf(new_val)}, FALSE, num_distractors)
           ELSE IF PyStrOf(alt_val) \notin seen_values
           THEN LoopStep(Append(unique_distractors, D(alt_val, "calculation_error")),
                         seen_values \cup {PyStrOf(alt_val)}, FALSE, num_distractors)
           ELSE LoopStep(unique_distractors, seen_values, TRUE, num_distractors)
  /\ UNCHANGED <<outerVars, concept, correct_answer, ground_truth, num_distractors, vdVars, plVars>>

\* lines 629-646: one iteration of the loop for a list answer
PadList ==
  /\ dpc = "pad"
  /\ ValueType = "list"
  /\ LET parsed_list == ParseListStructure(correct_answer).l
         half_str == ListToSource(SubSeq(parsed_list, 1, Len(parsed_list) \div 2))
     IN  IF Len(parsed_list) > 2 /\ half_str \notin seen_values
         THEN LoopStep(Append(unique_distractors, D(PyStr(half_str), "truncated_list")),
                       seen_values \cup {half_str}, FALSE, num_distractors)
         ELSE LoopStep(unique_distractors, seen_values, TRUE, num_distractors)
  /\ UNCHANGED <<outerVars, concept, correct_answer, ground_truth, num_distractors, vdVars, plVars>>

ComplexityOptions == <<sO1, sOlogn, sOn, sOnlogn, sOn2, sO2n>>

\* the mutant offers every option, seen or not
FreeOptionsAll(seen) ==
  {k \in 1..Len(ComplexityOptions) : TRUE}

\* lines 651-652: the options not in seen_values, by position
FreeOptions(seen) ==
  {k \in 1..Len(ComplexityOptions) : ComplexityOptions[k] \notin seen}

\* lines 648-661: one iteration of the loop for a complexity answer
PadComplexity ==
  /\ dpc = "pad"
  /\ ValueType = "complexity"
  /\ LET free == FreeOptions(seen_values)
     IN  IF free # {}
         THEN LET opt == ComplexityOptions[CHOOSE k \in free : \A j \in free : k =< j]
              IN  LoopStep(Append(unique_distractors, D(PyStr(opt), "complexity_guess")),
                           seen_values \cup {opt}, FALSE, num_distractors)
         ELSE LoopStep(unique_distractors, seen_values, TRUE, num_distractors)
  /\ UNCHANGED <<outerVars, concept, correct_answer, ground_truth, num_distractors, vdVars, plVars>>

\* lines 662-664: no padding for the other value types
PadGiveUp ==
  /\ dpc = "pad"
  /\ ValueType \notin {"numeric", "list", "complexity"}
  /\ LoopStep(unique_distractors, seen_values, TRUE, num_distractors)
  /\ UNCHANGED <<outerVars, concept, correct_answer, ground_truth, num_distractors, vdVars, plVars>>

(***************************************************************************)
(* QuestionValidator.validate_distractors                                  *)
(***************************************************************************)
\* lines 586-592: d.get('value', d) for a dict, else d
DistractorValue(d) ==
  IF d.t = "dict" THEN d.l[1] ELSE d

\* the mutant asks for the very same type, with no mixing of int and float
TypeWarningStrict(val, correct) ==
  val.t # correct.t

\* lines 605-625: does the distractor val count as a type warning?
TypeWarning(val, correct) ==
  IF IsIntOrFloatInstance(val) /\ IsIntOrFloatInstance(correct) THEN FALSE
  ELSE IF val.t = "str" /\ IsIntOrFloatInstance(correct) /\ FloatParse(Strip(val.s)).ok THEN FALSE
  ELSE val.t # correct.t

\* line 595: [str(correct_answer)] + [str(x) for x in distractor_values]
AllOptions(correct, values) ==
  <<PyStrOf(correct)>> \o [k \in 1..Len(values) |-> PyStrOf(values[k])]

SeqToSet(l) == {l[k] : k \in 1..Len(l)}

\* the mutant accepts every list of distractors
ValidateDistractorsAlways(correct, distractors) ==
  [valid |-> TRUE, errors |-> <<>>]

ValidateDistractors(correct, distractors) ==
  LET values == [k \in 1..Len(distractors) |-> DistractorValue(distractors[k])]
      all_options == AllOptions(correct, values)
      type_warnings == Cardinality({k \in 1..Len(values) : TypeWarning(values[k], correct)})
      errors == Opt(Len(distractors) < 3, "too_few")
                \o Opt(Len(all_options) # Cardinality(SeqToSet(all_options)), "not_distinct")
                \o Opt(\E k \in 1..Len(values) : PyStrOf(values[k]) = PyStrOf(correct),
                       "matches_correct")
                \o Opt(type_warnings = Len(values), "inconsistent_types")
  IN  IF distractors = <<>> THEN [valid |-> FALSE, errors |-> <<"no_distractors">>]
      ELSE [valid |-> errors = <<>>, errors |-> errors]

ValidateDistractorsCall ==
  /\ ~vd_result.called
  /\ ppc = "idle"
  /\ dpc = "idle"
  /\ vd_result' = [called |-> TRUE,
                   valid |-> ValidateDistractors(vd_correct, vd_distractors).valid,
                   errors |-> ValidateDistractors(vd_correct, vd_distractors).errors]
  /\ UNCHANGED <<outerVars, vd_correct, vd_distractors, dcVars, plVars>>

(***************************************************************************)
(* Inputs                                                                  *)
(***************************************************************************)
MaxNeg == 2
MaxSmallInt == 25
MaxInt == 1000
MaxPairs == 3
MaxNum == 4

\* one concept of each group that generate_*_distractors tests, and one of none
Concepts ==
  {"recursion", "lists", "map", "filter", "orders_of_growth", "higher_order_functions", "conditionals"}

\* answers as the interpreter displays them
AnswerStrings ==
  { <<"1","5">>,
    <<" ","1","5"," ">>,
    <<"-","3">>,
    <<"-","-","5">>,
    <<"+","5">>,
    <<"2",".","5">>,
    <<"3",".","0">>,
    <<"t","r","u","e">>,
    <<"F","a","l","s","e">>,
    <<"n","u","l","l">>,
    <<"u","n","d","e","f","i","n","e","d">>,
    <<"[","]">>,
    <<"[","5",","," ","n","u","l","l","]">>,
    <<"[","1",","," ","[","2",","," ","n","u","l","l","]","]">>,
    <<"[","1",","," ","[","2",","," ","[","3",","," ","n","u","l","l","]","]","]">>,
    <<"[","1",","," ","2",","," ","3","]">>,
    <<"[","0",","," ","7","]">>,
    <<"n","u","l","l"," ","l","i","s","t">>,
    <<"O","(","1",")">>,
    <<"O","(","l","o","g"," ","n",")">>,
    <<"O","(","n",")">>,
    <<"O","(","n"," ","l","o","g"," ","n",")">>,
    <<"O","(","n","^","2",")">>,
    <<"O","(","2","^","n",")">>,
    <<"O","(","L","O","G"," ","N",")">>,
    <<"O","(","n","^","3",")">>,
    <<"Theta","(","n",")">>,
    <<"R","e","c","u","r","s","i","v","e"," ","P","r","o","c","e","s","s">>,
    <<"i","t","e","r","a","t","i","v","e"," ","p","r","o","c","e","s","s">>,
    <<"h","e","l","l","o">>,
    <<"i","n","f">> }

\* floats are drawn in halves: 0.5, 1.5, 2.5, 3.0
AnswerFloats == {PyFloat(2), PyFloat(6), PyFloat(10), PyFloat(12)}

Answers ==
  {PyInt(k) : k \in (0 - MaxNeg)..MaxSmallInt} \cup {PyStr(x) : x \in AnswerStrings}
    \cup AnswerFloats \cup {PyBool(TRUE), PyBool(FALSE), PyNone}

GroundTruths == [pairs : 0..MaxPairs, accumulate : BOOLEAN]

(***************************************************************************)
(* QualityScore.is_acceptable                                              *)
(***************************************************************************)
DefaultThreshold == 60

\* the mutant lets every score pass
IsAcceptableAlways(total_score, threshold) ==
  TRUE

IsAcceptable(total_score, threshold) ==
  total_score >= threshold

(***************************************************************************)
(* QuestionPipeline._parse_interpreter_value                               *)
(* A SourceResult is [success, value, display_value, pair_count]; value is *)
(* the interpreter's {type, value} dict as [type, value], type "absent"    *)
(* when the reply carries no dict; display_value is a str or None.         *)
(***************************************************************************)
ParseDisplay(display_value) ==
  LET low == Lower(display_value.s)
      text == Strip(display_value.s)
  IN  IF display_value.t # "str" THEN display_value
      ELSE IF low = sTrue THEN PyBool(TRUE)
      ELSE IF low = sFalse THEN PyBool(FALSE)
      ELSE IF low \in {sNull, sUndefined} THEN PyNone
      ELSE IF ~HasChar(display_value.s, ".") /\ IntParse(text).ok THEN PyInt(IntParse(text).val)
      ELSE IF FloatParse(text).ok /\ FloatParse(text).kind = "dec" THEN PyFloat(FloatParse(text).q)
      ELSE display_value

ParseInterpreterValue(r) ==
  IF ~r.success THEN PyNone
  ELSE IF r.display_value.t = "none" THEN PyNone
  ELSE IF r.value.type \in {"number", "boolean", "string"} THEN r.value.value
  ELSE IF r.value.type = "null" THEN PyNone
  ELSE IF r.value.type \in {"list", "pair"} THEN r.display_value
  ELSE ParseDisplay(r.display_value)

sAccumulate == <<"a","c","c","u","m","u","l","a","t","e">>

\* the ground_truth dict of lines 278-282, as generate_numeric_distractors reads it
GroundTruthOf(parsed_value, r) ==
  [pairs |-> r.pair_count,
   accumulate |-> \/ Contains(Lower(PyStrOf(parsed_value)), sAccumulate)
                  \/ Contains(Lower(PyStrOf(r.display_value)), sAccumulate)]

(***************************************************************************)
(* QuestionPipeline.generate_one_question                                  *)
(***************************************************************************)
NoAttempt ==
  [concepts |-> <<>>, code_valid |-> FALSE, success |-> FALSE, parsed_value |-> PyNone,
   display_value |-> PyNone, pairs |-> 0, dist_valid |-> FALSE, actual_difficulty |-> "",
   scored |-> FALSE, total_score |-> 0, steps |-> <<>>]

NoQuestion ==
  [chapter |-> 0, concepts |-> <<>>, correct_answer |-> PyNone, distractors |-> <<>>,
   actual_difficulty |-> "", scored |-> FALSE, total_score |-> 0, acceptable |-> FALSE]

Pending == [kind |-> "pending", q |-> NoQuestion]

DifficultyLabels == {"easy", "medium", "hard", "very_hard"}

plArgs == <<chapter, max_retries, validate_quality, quality_threshold>>

\* `continue`, and the except clause of lines 388-393: on to the next
\* iteration.  The locals of the abandoned attempt are dead from here on
\* (every one is assigned again before it is read) and are cleared.
Continue ==
  /\ ppc' = "loop"
  /\ att' = NoAttempt
  /\ concept' = ""
  /\ correct_answer' = PyNone
  /\ ground_truth' = [pairs |-> 0, accumulate |-> FALSE]
  /\ num_distractors' = 0
  /\ dpc' = "idle"
  /\ unique_distractors' = <<>>
  /\ seen_values' = {}
  /\ result' = <<>>
  /\ UNCHANGED <<outerVars, plArgs, attempt, ret, vdVars>>

\* on to the step next with the attempt's locals a
Goto(next, a) ==
  /\ ppc' = next
  /\ att' = a
  /\ UNCHANGED <<outerVars, plArgs, attempt, ret, dcVars, vdVars>>

Logged(a, name) == [a EXCEPT !.steps = Append(a.steps, name)]

\* the mutant runs the loop once more, range(max_retries + 1)
MoreAttemptsOffByOne(n, limit) ==
  n =< limit

\* line 191: attempt in range(max_retries), n attempts having started
MoreAttempts(n, limit) ==
  n < limit

\* line 191 when the range is exhausted, lines 395-399
ReturnNone ==
  /\ ppc = "loop"
  /\ ~MoreAttempts(attempt, max_retries)
  /\ ppc' = "returned"
  /\ ret' = [kind |-> "none", q |-> NoQuestion]
  /\ UNCHANGED <<outerVars, plArgs, attempt, att, dcVars, vdVars>>

\* lines 191-211: the next attempt starts with select_concepts_with_metadata,
\* which raises ValueError when no concept is available
SelectConcepts ==
  /\ ppc = "loop"
  /\ MoreAttempts(attempt, max_retries)
  /\ attempt' = attempt + 1
  /\ \/ ppc' = "loop" /\ att' = NoAttempt
     \/ \E c \in Concepts :
          /\ att' = [NoAttempt EXCEPT !.concepts = <<c>>, !.steps = <<"select_concepts">>]
          /\ ppc' = "select_trap"
  /\ UNCHANGED <<outerVars, plArgs, ret, dcVars, vdVars>>

\* lines 213-220
SelectTrap ==
  /\ ppc = "select_trap"
  /\ Goto("generate_code", Logged(att, "select_trap"))

\* lines 222-235: the generated code is not kept; an LLM error may escape
GenerateCode ==
  /\ ppc = "generate_code"
  /\ \/ Goto("validate_code", Logged(att, "generate_code"))
     \/ Continue

\* a gate that lets code through whatever validate_code says
PassesStaticGateAlways(valid) ==
  TRUE

\* lines 249-252: `if not valid: continue`
PassesStaticGate(valid) ==
  valid

\* lines 237-254: the static gate; its verdict depends on the code text
ValidateCode ==
  /\ ppc = "validate_code"
  /\ \E valid \in BOOLEAN :
       IF ~PassesStaticGate(valid) THEN Continue
       ELSE Goto("run_interpreter", [Logged(att, "validate_code") EXCEPT !.code_valid = valid])

\* replies of the interpreter: the value dict and the display value
InterpreterValues ==
  { [type |-> "number", value |-> PyInt(120), display_value |-> PyStr(<<"1","2","0">>)],
    [type |-> "number", value |-> PyInt(0), display_value |-> PyStr(<<"0">>)],
    [type |-> "number", value |-> PyFloat(10), display_value |-> PyStr(<<"2",".","5">>)],
    [type |-> "boolean", value |-> PyBool(TRUE), display_value |-> PyStr(<<"t","r","u","e">>)],
    [type |-> "string", value |-> PyStr(<<"h","e","l","l","o">>), display_value |-> PyStr(<<"h","e","l","l","o">>)],
    [type |-> "string", value |-> PyStr(<<"i","n","f">>), display_value |-> PyStr(<<"i","n","f">>)],
    [type |-> "null", value |-> PyNone, display_value |-> PyStr(<<"n","u","l","l">>)],
    [type |-> "list", value |-> PyNone, display_value |-> PyStr(<<"[","1",","," ","[","2",","," ","n","u","l","l","]","]">>)],
    [type |-> "list", value |-> PyNone, display_value |-> PyStr(<<"[","1",","," ","[","2",","," ","[","3",","," ","n","u","l","l","]","]","]">>)],
    [type |-> "pair", value |-> PyNone, display_value |-> PyStr(<<"[","5",","," ","n","u","l","l","]">>)],
    [type |-> "absent", value |-> PyNone, display_value |-> PyStr(<<"1","5">>)],
    [type |-> "absent", value |-> PyNone, display_value |-> PyStr(<<"3",".","0">>)],
    [type |-> "absent", value |-> PyNone, display_value |-> PyStr(<<"O","(","1",")">>)],
    [type |-> "absent", value |-> PyNone, display_value |-> PyNone],
    [type |-> "absent", value |-> PyNone, display_value |-> PyStr(<<"t","r","u","e">>)] }

PairCounts == {0, 2}

InterpreterResults ==
  {[success |-> TRUE, value |-> [type |-> v.type, value |-> v.value],
    display_value |-> v.display_value, pair_count |-> p] : v \in InterpreterValues, p \in PairCounts}
  \cup {[success |-> FALSE, value |-> [type |-> "absent", value |-> PyNone],
         display_value |-> PyNone, pair_count |-> 0]}

\* the totals score_question may report
QualityScores == {40, 55, 60, 85}

\* lines 256-282: interpreter.run raises ValueError on an invalid chapter,
\* TimeoutError and RuntimeError on a failed subprocess; the runtime gate
RunInterpreter ==
  /\ ppc = "run_interpreter"
  /\ \/ Continue
     \/ /\ chapter \in {1, 2, 3, 4}
        /\ \E r \in InterpreterResults :
             IF ~r.success THEN Continue
             ELSE Goto("distractors",
                       [Logged(att, "run_interpreter") EXCEPT
                          !.success = r.success,
                          !.parsed_value = ParseInterpreterValue(r),
                          !.display_value = r.display_value,
                          !.pairs = r.pair_count])

\* lines 284-292: the call of generate_smart_distractors with the default
\* num_distractors = 3
DefaultNumDistractors == 3

CallDistractors ==
  /\ ppc = "distractors"
  /\ GenCall(att.concepts[1], att.parsed_value,
             GroundTruthOf(att.parsed_value,
                           [display_value |-> att.display_value, pair_count |-> att.pairs]),
             DefaultNumDistractors)
  /\ att' = Logged(att, "generate_distractors")
  /\ ppc' = "in_distractors"
  /\ UNCHANGED <<outerVars, plArgs, attempt, ret, vdVars>>

\* generate_smart_distractors raised: the except clause
DistractorsRaised ==
  /\ ppc = "in_distractors"
  /\ dpc = "raised"
  /\ Continue

DistractorValues(ds) == [k \in 1..Len(ds) |-> ds[k].value]

\* lines 299-312: the distractor gate
ValidateDistractorsStep ==
  /\ ppc = "in_distractors"
  /\ dpc = "done"
  /\ LET v == ValidateDistractors(att.parsed_value, DistractorValues(result))
     IN  IF ~v.valid THEN Continue
         ELSE Goto("difficulty", [Logged(att, "validate_distractors") EXCEPT !.dist_valid = v.valid])

\* lines 314-324: analyze_code and classify_difficulty
AnalyzeDifficulty ==
  /\ ppc = "difficulty"
  /\ \E label \in DifficultyLabels :
       Goto("question_text", [Logged(att, "analyze_difficulty") EXCEPT !.actual_difficulty = label])

\* lines 326-338: generate_question; an LLM error may escape
GenerateQuestionText ==
  /\ ppc = "question_text"
  /\ \/ Goto("quality", Logged(att, "question_text"))
     \/ Continue

\* lines 340-355 and 369: the question dict
Question(a, total) ==
  [chapter |-> chapter, concepts |-> a.concepts, correct_answer |-> a.parsed_value,
   distractors |-> DistractorValues(result), actual_difficulty |-> a.actual_difficulty,
   scored |-> validate_quality, total_score |-> total,
   acceptable |-> validate_quality /\ IsAcceptable(total, DefaultThreshold)]

\* lines 357-386: the optional quality gate, and the return
ScoreAndReturn ==
  /\ ppc = "quality"
  /\ IF validate_quality
     THEN \E total \in QualityScores :
            IF ~IsAcceptable(total, quality_threshold) THEN Continue
            ELSE /\ ppc' = "returned"
                 /\ att' = [Logged(att, "score_question") EXCEPT !.scored = TRUE,
                                                                  !.total_score = total]
                 /\ ret' = [kind |-> "question", q |-> Question(att, total)]
                 /\ UNCHANGED <<outerVars, plArgs, attempt, dcVars, vdVars>>
     ELSE /\ ppc' = "returned"
          /\ ret' = [kind |-> "question", q |-> Question(att, 0)]
          /\ UNCHANGED <<outerVars, plArgs, attempt, att, dcVars, vdVars>>

(***************************************************************************)
(* Specifications                                                          *)
(***************************************************************************)
IdleDC ==
  /\ concept = ""
  /\ correct_answer = PyNone
  /\ ground_truth = [pairs |-> 0, accumulate |-> FALSE]
  /\ num_distractors = 0
  /\ dpc = "idle"
  /\ unique_distractors = <<>>
  /\ seen_values = {}
  /\ result = <<>>

IdleVD ==
  /\ vd_correct = PyNone
  /\ vd_distractors = <<>>
  /\ vd_result = [called |-> FALSE, valid |-> FALSE, errors |-> <<>>]

NoCall == [fn |-> "", args |-> <<>>, done |-> FALSE, out |-> <<>>]

IdleOuter ==
  /\ num_questions = 0
  /\ batch_i = 0
  /\ questions = <<>>
  /\ bpc = "idle"
  /\ fcall = NoCall

IdlePL ==
  /\ chapter = 0
  /\ max_retries = 0
  /\ validate_quality = FALSE
  /\ quality_threshold = DefaultThreshold
  /\ ppc = "idle"
  /\ attempt = 0
  /\ att = NoAttempt
  /\ ret = Pending

\* generate_smart_distractors on drawn arguments
InitDC ==
  /\ concept \in Concepts
  /\ correct_answer \in Answers
  /\ ground_truth \in GroundTruths
  /\ num_distractors \in 0..MaxNum
  /\ dpc = "call"
  /\ unique_distractors = <<>>
  /\ seen_values = {}
  /\ result = <<>>
  /\ IdleVD
  /\ IdlePL
  /\ IdleOuter

NextDC ==
  \/ GenerateSmartDistractors
  \/ PadNumeric
  \/ PadList
  \/ PadComplexity
  \/ PadGiveUp

SpecDC == InitDC /\ [][NextDC]_vars

\* generate_smart_distractors on the integers 0..MaxInt, three distractors
InitNum ==
  /\ concept \in Concepts
  /\ correct_answer \in {PyInt(k) : k \in 0..MaxInt}
  /\ ground_truth \in GroundTruths
  /\ num_distractors = DefaultNumDistractors
  /\ dpc = "call"
  /\ unique_distractors = <<>>
  /\ seen_values = {}
  /\ result = <<>>
  /\ IdleVD
  /\ IdlePL
  /\ IdleOuter

NextNum ==
  \/ GenerateSmartDistractors
  \/ PadNumeric

SpecNum == InitNum /\ [][NextNum]_vars

\* validate_distractors on drawn arguments
MaxDistractors == 3

VDValues ==
  {PyInt(120), PyInt(24), PyInt(119), PyInt(121), PyFloat(480), PyStr(<<"1","2","0">>),
   PyStr(sUndefined), PyBool(TRUE), PyNone, PyDict(PyInt(120)), PyDict(PyInt(24))}

VDCorrect ==
  {PyInt(120), PyFloat(10), PyStr(sOn), PyBool(TRUE), PyNone}

VDLists ==
  UNION {[1..n -> VDValues] : n \in 0..MaxDistractors}

InitVD ==
  /\ vd_correct \in VDCorrect
  /\ vd_distractors \in VDLists
  /\ vd_result = [called |-> FALSE, valid |-> FALSE, errors |-> <<>>]
  /\ IdleDC
  /\ IdlePL
  /\ IdleOuter

NextVD == ValidateDistractorsCall

SpecVD == InitVD /\ [][NextVD]_vars

\* generate_one_question
MaxRetries == 2

Thresholds == {50, DefaultThreshold}

Init ==
  /\ chapter \in {2, 5}
  /\ max_retries \in 0..MaxRetries
  /\ validate_quality \in BOOLEAN
  /\ quality_threshold \in Thresholds
  /\ ppc = "loop"
  /\ attempt = 0
  /\ att = NoAttempt
  /\ ret = Pending
  /\ IdleDC
  /\ IdleVD
  /\ IdleOuter

Next ==
  \/ SelectConcepts
  \/ ReturnNone
  \/ SelectTrap
  \/ GenerateCode
  \/ ValidateCode
  \/ RunInterpreter
  \/ CallDistractors
  \/ PadNumeric
  \/ PadList
  \/ PadComplexity
  \/ PadGiveUp
  \/ DistractorsRaised
  \/ ValidateDistractorsStep
  \/ AnalyzeDifficulty
  \/ GenerateQuestionText
  \/ ScoreAndReturn

Spec == Init /\ [][Next]_vars

(***************************************************************************)
(* Properties of generate_smart_distractors                                *)
(***************************************************************************)
Returned == dpc = "done"

ResultValues == [k \in 1..Len(result) |-> result[k].value]

Rendered(values) == [k \in 1..Len(values) |-> PyStrOf(values[k])]

PairwiseDistinct(l) == \A j, k \in 1..Len(l) : j # k => l[j] # l[k]

\* C1: generate_smart_distractors returns exactly num_distractors
\* distractors, for every concept, ground truth and correct answer of any
\* category and whatever offsets the padding draws.
C1_ExactlyN ==
  Returned => Len(result) = num_distractors

\* C2: the returned distractors render to pairwise distinct strings, and
\* none renders to the string of the raw or of the parsed correct answer.
C2_DistinctFromEachOtherAndCorrect ==
  Returned =>
    /\ PairwiseDistinct(Rendered(ResultValues))
    /\ \A k \in 1..Len(result) :
         PyStrOf(result[k].value) \notin {PyStrOf(correct_answer), PyStrOf(ParsedAnswer)}

\* a return of two or more distractors after the deduplication dropped a
\* candidate, with a padded distractor among them
C2_Witness ==
  /\ Returned
  /\ Len(result) >= 2
  /\ Len(Candidates(concept, correct_answer, ground_truth).ds) > Len(unique_distractors)
  /\ \E k \in 1..Len(result) : result[k].misconception = "arithmetic_error"

\* the category of a distractor: of the value as it is, or as _parse_value reads it
HasCategory(v, category) ==
  GetValueType(v) = category \/ GetValueType(ParseValue(v)) = category

\* C3: for a numeric, boolean, list, complexity or process correct answer
\* every returned distractor has the category of the correct answer.
C3_SameCategory ==
  (Returned /\ ValueType \in {"numeric", "boolean", "list", "complexity", "process"}) =>
    \A k \in 1..Len(result) : HasCategory(result[k].value, ValueType)

IsNumber(v) == v.t \in {"int", "float"}

\* C4: for an integer correct answer in 0..1000, any concept and any
\* non-negative pair count, every distractor is a number and is
\* non-negative, the padded ones included.
C4_NonNegativeNumbers ==
  (dpc \in {"pad", "done"} /\ correct_answer.t = "int"
     /\ correct_answer.i >= 0 /\ correct_answer.i =< MaxInt) =>
    /\ \A k \in 1..Len(unique_distractors) :
         IsNumber(unique_distractors[k].value) /\ Quarters(unique_distractors[k].value) >= 0
    /\ \A k \in 1..Len(result) :
         IsNumber(result[k].value) /\ Quarters(result[k].value) >= 0

\* a return for the correct answer 0 where the padding added a distractor
C4_Witness ==
  /\ Returned
  /\ correct_answer = PyInt(0)
  /\ Len(result) >= 2
  /\ \E k \in 1..Len(result) : result[k].misconception = "arithmetic_error"

\* list notation: the string null or a bracketed string
IsListNotation(v) ==
  /\ v.t = "str"
  /\ LET text == Strip(v.s)
     IN  \/ text = sNull
         \/ Len(text) >= 2 /\ text[1] = "[" /\ text[Len(text)] = "]"

C6_OffByOne ==
  (Returned /\ correct_answer.t = "int" /\ correct_answer.i > 0
     /\ num_distractors = DefaultNumDistractors) =>
    /\ Len(result) = DefaultNumDistractors
    /\ PyInt(correct_answer.i - 1) \in SeqToSet(ResultValues)
    /\ PyInt(correct_answer.i + 1) \in SeqToSet(ResultValues)
    /\ \A k \in 1..Len(result) : Quarters(result[k].value) # Quarters(correct_answer)

\* the return for the correct answer 15 and the concept recursion, with 14 and 16
C6_Witness ==
  /\ Returned
  /\ correct_answer = PyInt(15)
  /\ concept = "recursion"
  /\ {PyInt(14), PyInt(16)} \subseteq SeqToSet(ResultValues)

CanonicalClasses == {sO1, sOlogn, sOn, sOnlogn, sOn2, sO2n}

\* C7: for each of the six canonical complexity classes the 3 returned
\* distractors are other canonical classes, never the correct one; for
\* O(n) they come from O(1), O(log n), O(n^2), O(n log n).
C7_CanonicalComplexity ==
  (Returned /\ correct_answer.t = "str" /\ correct_answer.s \in CanonicalClasses
     /\ num_distractors = DefaultNumDistractors) =>
    /\ Len(result) = DefaultNumDistractors
    /\ \A k \in 1..Len(result) :
         /\ result[k].value.t = "str"
         /\ result[k].value.s \in CanonicalClasses \ {correct_answer.s}
         /\ correct_answer.s = sOn => result[k].value.s \in {sO1, sOlogn, sOn2, sOnlogn}

\* the return of three classes for O(1), the third one from the padding
C7_Witness ==
  /\ Returned
  /\ correct_answer = PyStr(sO1)
  /\ Len(result) = DefaultNumDistractors
  /\ result[DefaultNumDistractors].misconception = "complexity_guess"

(***************************************************************************)
(* Properties of validate_distractors                                      *)
(***************************************************************************)
VDRendered == Rendered([k \in 1..Len(vd_distractors) |-> DistractorValue(vd_distractors[k])])

\* C8: validate_distractors reports invalid when a distractor renders to
\* the string of the correct answer or two distractors render to the same
\* string, as for (120, [120, 24, 119]); it reports valid for three
\* distractors that are numbers, render pairwise distinct and differ from
\* a correct answer that is a number, as for (120, [24, 119, 121]).
C8_DistinctnessDecides ==
  vd_result.called =>
    /\ (\E k \in 1..Len(VDRendered) : VDRendered[k] = PyStrOf(vd_correct)) => ~vd_result.valid
    /\ ~PairwiseDistinct(VDRendered) => ~vd_result.valid
    /\ ( /\ Len(vd_distractors) = 3
         /\ IsNumber(vd_correct)
         /\ \A k \in 1..3 : IsNumber(vd_distractors[k])
         /\ PairwiseDistinct(VDRendered)
         /\ \A k \in 1..3 : VDRendered[k] # PyStrOf(vd_correct) ) => vd_result.valid
    /\ (vd_correct = PyInt(120) /\ vd_distractors = <<PyInt(24), PyInt(119), PyInt(121)>>)
         => vd_result.valid

\* the call (120, [120, 24, 119]) has returned invalid
C8_Witness ==
  /\ vd_result.called
  /\ vd_correct = PyInt(120)
  /\ vd_distractors = <<PyInt(120), PyInt(24), PyInt(119)>>
  /\ ~vd_result.valid

(***************************************************************************)
(* Properties of generate_one_question                                     *)
(***************************************************************************)
\* C9: generate_one_question returns a question only from an attempt in
\* which the static validation passed, the interpreter reported success,
\* the distractor validation passed and, when validate_quality is set, the
\* quality total reached the threshold; nothing is returned before that.
C9_OnlyGatedQuestions ==
  /\ ppc # "returned" => ret = Pending
  /\ ret.kind = "question" =>
       /\ att.code_valid
       /\ att.success
       /\ att.dist_valid
       /\ ValidateDistractors(ret.q.correct_answer, ret.q.distractors).valid
       /\ validate_quality => att.scored /\ att.total_score >= quality_threshold
       /\ ret.q.total_score = att.total_score

\* a scored question returned from the second attempt
C9_Witness ==
  /\ ret.kind = "question"
  /\ validate_quality
  /\ attempt = 2
  /\ ret.q.total_score >= quality_threshold

\* C10: generate_one_question starts at most max_retries attempts, stops
\* at the first attempt that passes, and returns None, raising nothing,
\* when every attempt has failed.
C10_BoundedAttempts ==
  /\ attempt =< max_retries
  /\ ppc = "returned" => ret.kind \in {"question", "none"}
  /\ ret.kind = "none" => ppc = "returned" /\ attempt = max_retries
  /\ ret.kind = "question" => ppc = "returned" /\ attempt >= 1 /\ att.steps # <<>>
  /\ ppc = "returned" => ~ENABLED Next

\* None returned after MaxRetries failed attempts
C10_Witness ==
  /\ ret.kind = "none"
  /\ max_retries = MaxRetries
  /\ attempt = MaxRetries

\* C11: in every question generate_one_question returns there are exactly
\* 3 distractors, they render to pairwise distinct strings, and the correct
\* answer is not among them, neither as a rendered string nor as a number.
C11_AcceptedQuestionOptions ==
  ret.kind = "question" =>
    /\ Len(ret.q.distractors) = 3
    /\ PairwiseDistinct(Rendered(ret.q.distractors))
    /\ \A k \in 1..Len(ret.q.distractors) :
         /\ PyStrOf(ret.q.distractors[k]) # PyStrOf(ret.q.correct_answer)
         /\ (IsNum(ret.q.distractors[k]) /\ IsNum(ret.q.correct_answer))
              => Quarters(ret.q.distractors[k]) # Quarters(ret.q.correct_answer)

\* a question returned for the float 3.0, whose candidates are integers
C11_Witness ==
  /\ ret.kind = "question"
  /\ ret.q.correct_answer = PyFloat(12)
  /\ Len(ret.q.distractors) = 3

(***************************************************************************)
(* QuestionPipeline.generate_batch                                         *)
(***************************************************************************)
MaxBatch == 2

DefaultMaxRetries == 3

\* lines 427-437: the next iteration calls generate_one_question, with
\* max_retries left to its default
BatchIterate ==
  /\ bpc = "loop"
  /\ batch_i < num_questions
  /\ ppc = "idle"
  /\ bpc' = "in_question"
  /\ ppc' = "loop"
  /\ max_retries' = DefaultMaxRetries
  /\ attempt' = 0
  /\ att' = NoAttempt
  /\ ret' = Pending
  /\ UNCHANGED <<chapter, validate_quality, quality_threshold, num_questions, batch_i,
                 questions, fcall, dcVars, vdVars>>

\* the mutant returns at the first question that failed
BatchCollectOrStop ==
  /\ bpc = "in_question"
  /\ ppc = "returned"
  /\ IF ret.kind = "question"
     THEN /\ questions' = Append(questions, [i |-> batch_i, scored |-> ret.q.scored,
                                             total_score |-> ret.q.total_score])
          /\ batch_i' = batch_i + 1
          /\ bpc' = "loop"
     ELSE /\ questions' = questions
          /\ batch_i' = batch_i
          /\ bpc' = "done"
  /\ ppc' = "idle"
  /\ attempt' = 0
  /\ att' = NoAttempt
  /\ ret' = Pending
  /\ concept' = ""
  /\ correct_answer' = PyNone
  /\ ground_truth' = [pairs |-> 0, accumulate |-> FALSE]
  /\ num_distractors' = 0
  /\ dpc' = "idle"
  /\ unique_distractors' = <<>>
  /\ seen_values' = {}
  /\ result' = <<>>
  /\ UNCHANGED <<chapter, max_retries, validate_quality, quality_threshold, num_questions,
                 fcall, vdVars>>

\* lines 439-443: generate_one_question has returned; a question is
\* appended, None is not; the callee's frame is gone
BatchCollect ==
  /\ bpc = "in_question"
  /\ ppc = "returned"
  /\ questions' = IF ret.kind = "question"
                  THEN Append(questions, [i |-> batch_i, scored |-> ret.q.scored,
                                          total_score |-> ret.q.total_score])
                  ELSE questions
  /\ batch_i' = batch_i + 1
  /\ bpc' = "loop"
  /\ ppc' = "idle"
  /\ attempt' = 0
  /\ att' = NoAttempt
  /\ ret' = Pending
  /\ concept' = ""
  /\ correct_answer' = PyNone
  /\ ground_truth' = [pairs |-> 0, accumulate |-> FALSE]
  /\ num_distractors' = 0
  /\ dpc' = "idle"
  /\ unique_distractors' = <<>>
  /\ seen_values' = {}
  /\ result' = <<>>
  /\ UNCHANGED <<chapter, max_retries, validate_quality, quality_threshold, num_questions,
                 fcall, vdVars>>

\* lines 445-460, output_file = None: the success rate divides by
\* num_questions (ZeroDivisionError for 0), then the list is returned
BatchReturn ==
  /\ bpc = "loop"
  /\ batch_i >= num_questions
  /\ ppc = "idle"
  /\ bpc' = IF num_questions = 0 THEN "raised" ELSE "done"
  /\ UNCHANGED <<num_questions, batch_i, questions, fcall, dcVars, vdVars, plVars>>

InitGB ==
  /\ num_questions \in 0..MaxBatch
  /\ batch_i = 0
  /\ questions = <<>>
  /\ bpc = "loop"
  /\ fcall = NoCall
  /\ chapter \in {2, 5}
  /\ max_retries = DefaultMaxRetries
  /\ validate_quality \in BOOLEAN
  /\ quality_threshold \in Thresholds
  /\ ppc = "idle"
  /\ attempt = 0
  /\ att = NoAttempt
  /\ ret = Pending
  /\ IdleDC
  /\ IdleVD

NextGB ==
  \/ BatchIterate
  \/ BatchCollect
  \/ BatchReturn
  \/ SelectConcepts
  \/ ReturnNone
  \/ SelectTrap
  \/ GenerateCode
  \/ ValidateCode
  \/ RunInterpreter
  \/ CallDistractors
  \/ PadNumeric
  \/ PadList
  \/ PadComplexity
  \/ PadGiveUp
  \/ DistractorsRaised
  \/ ValidateDistractorsStep
  \/ AnalyzeDifficulty
  \/ GenerateQuestionText
  \/ ScoreAndReturn

SpecGB == InitGB /\ [][NextGB]_vars

Call(fn, args) == [fn |-> fn, args |-> args, done |-> FALSE, out |-> <<>>]

Return(out) ==
  /\ fcall' = [fcall EXCEPT !.done = TRUE, !.out = out]
  /\ UNCHANGED <<num_questions, batch_i, questions, bpc, dcVars, vdVars, plVars>>

Returned_(fn) == fcall.fn = fn /\ fcall.done

(***************************************************************************)
(* The constructors and the static JSON documents                          *)
(***************************************************************************)
StaticFiles == {"syllabus.json", "traps.json", "operational_rules.json"}

\* the document each constructor opens
ComponentFile ==
  [ConceptSelector |-> "syllabus.json", DifficultyAnalyzer |-> "syllabus.json",
   CodeValidator |-> "syllabus.json", ComplexityVerifier |-> "operational_rules.json",
   DistractorComputer |-> "traps.json", QuestionScorer |-> "traps.json",
   CodeGenerator |-> "operational_rules.json"]

Components == DOMAIN ComponentFile

\* the constructors that open the document inside try/except FileNotFoundError
CatchesMissing ==
  {"DifficultyAnalyzer", "CodeValidator", "ComplexityVerifier", "DistractorComputer",
   "QuestionScorer", "CodeGenerator"}

\* __init__ of a component with the documents `present` on disk
ComponentInit(component, present) ==
  IF ComponentFile[component] \in present THEN [raised |-> "", tables |-> "loaded"]
  ELSE IF component \in CatchesMissing THEN [raised |-> "", tables |-> "default"]
  ELSE [raised |-> "FileNotFoundError", tables |-> ""]

\* QuestionPipeline.__init__: the constructors in the order of lines 52-61.
\* SourceInterpreter raises when the wrapper script is missing, and
\* QuestionGenerator takes api_key only, not llm_config.
PipelineInit(present, wrapper) ==
  IF ~wrapper THEN [raised |-> "FileNotFoundError", tables |-> ""]
  ELSE IF ComponentInit("ConceptSelector", present).raised # ""
       THEN ComponentInit("ConceptSelector", present)
  ELSE [raised |-> "TypeError", tables |-> ""]

InitCalls ==
  {Call("__init__", [component |-> c, present |-> f, wrapper |-> w]) :
     c \in Components \cup {"QuestionPipeline"}, f \in SUBSET StaticFiles, w \in BOOLEAN}

Construct ==
  /\ fcall.fn = "__init__"
  /\ ~fcall.done
  /\ Return(IF fcall.args.component = "QuestionPipeline"
            THEN PipelineInit(fcall.args.present, fcall.args.wrapper)
            ELSE ComponentInit(fcall.args.component, fcall.args.present))

\* C13: when a static JSON document is missing, every component that
\* loads it, and QuestionPipeline with the wrapper script in place, is
\* constructed with empty or default tables and raises nothing.
C13_MissingFileDefaults ==
  (Returned_("__init__") /\ fcall.args.wrapper /\ fcall.args.present # StaticFiles) =>
    /\ fcall.out.raised = ""
    /\ (fcall.args.component \in Components
          /\ ComponentFile[fcall.args.component] \notin fcall.args.present)
         => fcall.out.tables = "default"

(***************************************************************************)
(* SourceInterpreter.run and SourceInterpreter.validate                    *)
(* What the subprocess did is the record proc: kind says how it ended, and *)
(* for a JSON object on stdout has_success, success and error are the      *)
(* reply's keys (error "" for null or absent).                             *)
(***************************************************************************)
ProcKinds == {"timeout", "node_missing", "failed_no_stdout", "non_json", "json_not_object", "json"}

ProcOutcomes ==
  {[kind |-> k, has_success |-> FALSE, success |-> FALSE, error |-> ""] :
     k \in ProcKinds \ {"json"}}
  \cup {[kind |-> "json", has_success |-> h, success |-> s, error |-> e] :
          h \in BOOLEAN, s \in BOOLEAN, e \in {"", "Line 1: Name x not declared."}}

Raise(e) == [raised |-> e, success |-> FALSE, error |-> ""]

\* the mutant turns every failure of the subprocess into a failure result
RunSynthesized(ch, proc) ==
  IF ch \notin {1, 2, 3, 4} THEN Raise("ValueError")
  ELSE IF proc.kind = "json"
       THEN [raised |-> "", success |-> proc.has_success /\ proc.success, error |-> proc.error]
  ELSE [raised |-> "", success |-> FALSE, error |-> proc.kind]

\* lines 97-159
Run(ch, proc) ==
  IF ch \notin {1, 2, 3, 4} THEN Raise("ValueError")
  ELSE CASE proc.kind = "timeout" -> Raise("TimeoutError")
         [] proc.kind \in {"node_missing", "failed_no_stdout", "non_json"} -> Raise("RuntimeError")
         [] proc.kind = "json_not_object" -> Raise("AttributeError")
         [] OTHER -> [raised |-> "", success |-> proc.has_success /\ proc.success,
                      error |-> proc.error]

\* lines 175-183: (is_valid, error_message), the message str(e) when run raised
Validate(ch, proc) ==
  LET r == Run(ch, proc)
  IN  IF r.raised # "" THEN [raised |-> "", success |-> FALSE, error |-> r.raised]
      ELSE IF r.success THEN [raised |-> "", success |-> TRUE, error |-> ""]
      ELSE [raised |-> "", success |-> FALSE, error |-> r.error]

RunCalls ==
  {Call(f, [chapter |-> ch, proc |-> p]) :
     f \in {"run", "validate"}, ch \in 0..5, p \in ProcOutcomes}

RunCall ==
  /\ fcall.fn \in {"run", "validate"}
  /\ ~fcall.done
  /\ Return(IF fcall.fn = "run" THEN Run(fcall.args.chapter, fcall.args.proc)
            ELSE Validate(fcall.args.chapter, fcall.args.proc))

FailedProcess == fcall.args.proc.kind \in {"timeout", "non_json"}

\* C14 as stated: when the subprocess exceeds the timeout or writes
\* standard output that is not JSON, SourceInterpreter.run returns a failure
\* result with success = false and a non-null error, and raises nothing.
C14_RunReturnsFailure ==
  (Returned_("run") /\ fcall.args.chapter \in 1..4 /\ FailedProcess) =>
    /\ fcall.out.raised = ""
    /\ ~fcall.out.success
    /\ fcall.out.error # ""

\* C14 amended: in those two cases run returns no result: it raises
\* TimeoutError for the timeout and RuntimeError for the output that is not
\* JSON; it is validate that returns the failure, (False, message) with a
\* message, and raises nothing.
C14_RunRaisesValidateReturns ==
  /\ (Returned_("run") /\ fcall.args.chapter \in 1..4 /\ FailedProcess) =>
       fcall.out.raised = IF fcall.args.proc.kind = "timeout" THEN "TimeoutError"
                          ELSE "RuntimeError"
  /\ (Returned_("validate") /\ FailedProcess) =>
       fcall.out.raised = "" /\ ~fcall.out.success /\ fcall.out.error # ""
  /\ Returned_("validate") => fcall.out.raised = ""

\* run has raised TimeoutError
C14_Witness ==
  /\ Returned_("run")
  /\ fcall.args.proc.kind = "timeout"
  /\ fcall.out.raised = "TimeoutError"

(***************************************************************************)
(* CodeGenerator.generate_code without an LLM, and                         *)
(* QuestionGenerator._generate_template_question.  A code text is named by *)
(* <<concept, chapter key, position in the list of examples>>.             *)
(***************************************************************************)
\* FALLBACK_EXAMPLES: the chapter keys of each concept ({} for a plain
\* list) and the number of examples in each list
FallbackExamples ==
  [recursion_process |-> [keys |-> {1, 2}, n |-> 3],
   iterative_process |-> [keys |-> {1, 2}, n |-> 2],
   list_library |-> [keys |-> {}, n |-> 3],
   lists |-> [keys |-> {}, n |-> 3],
   basics |-> [keys |-> {1, 2}, n |-> 3]]

NoSeed == [given |-> FALSE, value |-> 0]

\* the mutant never seeds the generator
GenerateFallbackCodeUnseeded(concepts, ch, seed, draw) ==
  LET found == {k \in 1..Len(concepts) : concepts[k] \in DOMAIN FallbackExamples}
      first == CHOOSE k \in found : \A j \in found : k =< j
      ex == FallbackExamples[concepts[first]]
      below == {k \in ex.keys : k =< ch}
  IN  IF found = {} THEN [raised |-> "", code |-> <<"generic", IF ch = 1 THEN 1 ELSE 2, 0>>]
      ELSE IF ex.keys # {} /\ below = {} THEN [raised |-> "ValueError", code |-> <<>>]
      ELSE [raised |-> "",
            code |-> <<concepts[first],
                       IF ex.keys = {} THEN 0 ELSE CHOOSE k \in below : \A j \in below : j =< k,
                       draw % ex.n>>]

\* lines 369-398: random.choice draws position draw % n from the global
\* generator, or the position the seed fixes once random.seed(seed) ran
GenerateFallbackCode(concepts, ch, seed, draw) ==
  LET found == {k \in 1..Len(concepts) : concepts[k] \in DOMAIN FallbackExamples}
      first == CHOOSE k \in found : \A j \in found : k =< j
      ex == FallbackExamples[concepts[first]]
      below == {k \in ex.keys : k =< ch}
  IN  IF found = {} THEN [raised |-> "", code |-> <<"generic", IF ch = 1 THEN 1 ELSE 2, 0>>]
      ELSE IF ex.keys # {} /\ below = {} THEN [raised |-> "ValueError", code |-> <<>>]
      ELSE [raised |-> "",
            code |-> <<concepts[first],
                       IF ex.keys = {} THEN 0 ELSE CHOOSE k \in below : \A j \in below : j =< k,
                       (IF seed.given THEN seed.value ELSE draw) % ex.n>>]

MaxDraw == 2

MaxSeed == 3

CodeCalls ==
  {Call("generate_code", [concepts |-> c, chapter |-> ch, seed |-> s, draws |-> d]) :
     c \in {<<"recursion_process">>, <<"iterative_process", "lists">>, <<"map", "lists">>,
            <<"conditionals">>},
     ch \in 0..4,
     s \in {NoSeed} \cup {[given |-> TRUE, value |-> v] : v \in 0..MaxSeed},
     d \in (0..MaxDraw) \X (0..MaxDraw)}

\* two calls of generate_code with the same arguments, self.llm unavailable
\* (line 281)
GenerateCodeTwice ==
  /\ fcall.fn = "generate_code"
  /\ ~fcall.done
  /\ Return([k \in 1..2 |-> GenerateFallbackCode(fcall.args.concepts, fcall.args.chapter,
                                                 fcall.args.seed, fcall.args.draws[k])])

\* lines 183-220: the shuffled options, the letter of the correct answer
\* (0 for A) and the question type; perm is what random.shuffle did
GenerateTemplateQuestion(concepts, correct, values, perm) ==
  LET options == <<correct>> \o values
      shuffled == [k \in 1..Len(options) |-> options[perm[k]]]
      has(names) == \E k \in 1..Len(concepts) : concepts[k] \in names
  IN  [options |-> shuffled,
       correct_letter |-> (CHOOSE k \in 1..Len(shuffled) :
                             /\ shuffled[k] = correct
                             /\ \A j \in 1..(k - 1) : shuffled[j] # correct) - 1,
       question_type |-> IF has({"recursion", "lists", "pairs"}) THEN "value"
                         ELSE IF has({"complexity", "orders_of_growth"}) THEN "complexity"
                         ELSE "output"]

Shuffles(n) == {p \in [1..n -> 1..n] : \A j, k \in 1..n : j # k => p[j] # p[k]}

QuestionCalls ==
  {Call("template_question", [concepts |-> c, correct |-> 120, values |-> <<24, 119, 121>>,
                              perms |-> p]) :
     c \in {<<"recursion">>, <<"orders_of_growth">>, <<"conditionals">>},
     p \in Shuffles(4) \X Shuffles(4)}

\* two calls of generate_question with the same arguments, no API key
\* (lines 118-122)
TemplateQuestionTwice ==
  /\ fcall.fn = "template_question"
  /\ ~fcall.done
  /\ Return([k \in 1..2 |-> GenerateTemplateQuestion(fcall.args.concepts, fcall.args.correct,
                                                     fcall.args.values, fcall.args.perms[k])])

\* C15 as stated: without LLM credentials two calls of generate_code with
\* the same concepts, trap and chapter and no seed return the same code,
\* and two calls of the template question generator with the same code,
\* correct answer and distractors return the same question text.
C15_FallbackDeterministic ==
  /\ (Returned_("generate_code") /\ ~fcall.args.seed.given) => fcall.out[1] = fcall.out[2]
  /\ Returned_("template_question") => fcall.out[1] = fcall.out[2]

\* C15 amended: generate_code repeats its code when a seed is given or no
\* concept has examples; without a seed the two codes come from the same
\* list of examples.  The two template questions have the same question
\* type and the same options in some order, and each marks the position
\* of the correct answer.
C15_FallbackUpToChoice ==
  /\ (Returned_("generate_code") /\ fcall.out[1].raised = "") =>
       /\ fcall.out[2].raised = ""
       /\ fcall.out[1].code[1] = fcall.out[2].code[1]
       /\ fcall.out[1].code[2] = fcall.out[2].code[2]
       /\ (fcall.args.seed.given \/ fcall.out[1].code[1] = "generic")
            => fcall.out[1] = fcall.out[2]
  /\ Returned_("template_question") =>
       /\ fcall.out[1].question_type = fcall.out[2].question_type
       /\ {fcall.out[1].options[k] : k \in 1..4} = {fcall.out[2].options[k] : k \in 1..4}
       /\ \A c \in 1..2 : fcall.out[c].options[fcall.out[c].correct_letter + 1] = fcall.args.correct

\* two seeded calls have returned the same example, not the first of its list
C15_Witness ==
  /\ Returned_("generate_code")
  /\ fcall.args.seed.given
  /\ fcall.args.draws[1] # fcall.args.draws[2]
  /\ fcall.out[1].raised = ""
  /\ fcall.out[1].code[3] > 0
  /\ fcall.out[1] = fcall.out[2]

(***************************************************************************)
(* CodeValidator.check_chapter_constraints                                 *)
(* A code text is the sequence of its tokens: a word (a maximal run of     *)
(* \w characters), a blank, a newline, or a run of punctuation.  On such a *)
(* sequence \bword\b is a token equal to word and \s* a run of blanks.     *)
(***************************************************************************)
Blanks == {" ", "\n"}

Punctuation ==
  {"(", ")", "{", "}", "[", "]", ";", ",", "=", "===", "=>", "+", "-", "/",
   "?", ":", ".", ">>", "<", "*", "!==", ">=", "<=", "&&", "||"}

Numbers == {"1", "2"}

\* check_chapter_constraints without its loop check
CheckChapterConstraintsLoopsAllowed(code, ch) ==
  IF ch < 2 /\ \E i \in 1..Len(code) : code[i] \in {"list", "pair", "head"}
  THEN [valid |-> FALSE, message |-> "list() not allowed"]
  ELSE [valid |-> TRUE, message |-> ""]

\* check_chapter_constraints with the loop check guarded by chapter >= 2
\* in place of chapter < 3
CheckChapterConstraintsLoopsFromTwo(code, ch) ==
  IF ch < 2 /\ \E i \in 1..Len(code) : code[i] \in {"list", "pair", "head"}
  THEN [valid |-> FALSE, message |-> "list() not allowed"]
  ELSE IF ch >= 2 /\ \E i \in 1..Len(code) : code[i] \in {"while", "for"}
  THEN [valid |-> FALSE, message |-> "Loops not allowed"]
  ELSE [valid |-> TRUE, message |-> ""]

\* [valid, message], the message named by the check that failed
CheckChapterConstraints(code, ch) ==
  LET n == Len(code)
      IsWord(t) == t \notin Blanks \cup Punctuation
      \* the position after the blanks that start at i
      Skip(i) == CHOOSE j \in i..(n + 1) :
                   /\ \A k \in i..(j - 1) : code[k] \in Blanks
                   /\ j = n + 1 \/ code[j] \notin Blanks
      At(i, toks) == i =< n /\ code[i] \in toks
      \* \b(words)\s*\(
      CallOf(words) == \E i \in 1..n : code[i] \in words /\ At(Skip(i + 1), {"("})
      \* \bkw\s+(\w+)\s*= matched at i
      Decl(kw, i) == /\ code[i] = kw
                     /\ At(i + 1, Blanks)
                     /\ Skip(i + 1) =< n /\ IsWord(code[Skip(i + 1)])
                     /\ At(Skip(Skip(i + 1) + 1), {"=", "===", "=>"})
      LineStarts == {a \in 1..n : a = 1 \/ code[a - 1] = "\n"}
      LineEnd(a) == CHOOSE b \in (a - 1)..n :
                      /\ \A k \in a..b : code[k] # "\n"
                      /\ b = n \/ code[b + 1] = "\n"
      \* const_match.group(1) of the line at a, as a set
      Declared(a) == LET ms == {i \in a..LineEnd(a) : Decl("const", i)}
                     IN  IF ms = {} THEN {}
                         ELSE {code[Skip((CHOOSE i \in ms : \A j \in ms : i =< j) + 1)]}
      DeclaredVars(a) == UNION {Declared(b) : b \in {c \in LineStarts : c =< a}}
      \* assignment_match.group(1) of the line at a, as a set:
      \* ^[^=]*\b(\w+)\s*=(?!=) stops at the first = of the line
      Assigned(a) ==
        LET es == {i \in a..LineEnd(a) : code[i] \in {"=", "===", "=>"}}
            e == CHOOSE i \in es : \A j \in es : i =< j
            ws == {i \in a..(e - 1) : IsWord(code[i]) /\ Skip(i + 1) = e}
        IN  IF es = {} \/ code[e] = "===" THEN {} ELSE {code[i] : i \in ws}
      Reassigns(a) ==
        /\ Assigned(a) \cap DeclaredVars(a) # {}
        /\ \A i \in a..LineEnd(a) : code[i] \notin {"const", "=>"}
      ArrayLiteral == \E i \in 1..n : code[i] = "[" /\ At(Skip(i + 1), {"]"} \cup Numbers)
      ListNotation ==
        \/ \E i \in 1..n : code[i] = "null"
        \/ \E i \in 1..n :
             /\ code[i] = "[" /\ At(Skip(i + 1), Numbers)
             /\ At(Skip(Skip(i + 1) + 1), {","})
             /\ At(Skip(Skip(Skip(i + 1) + 1) + 1), {"["})
      No(m) == [valid |-> FALSE, message |-> m]
  IN  IF ch < 2 /\ CallOf({"list"}) THEN No("list() not allowed")
      ELSE IF ch < 2 /\ CallOf({"pair"}) THEN No("pair() not allowed")
      ELSE IF ch < 2 /\ CallOf({"head", "tail", "is_null", "is_pair"})
           THEN No("List operations not allowed")
      ELSE IF ch >= 3 THEN [valid |-> TRUE, message |-> ""]
      ELSE IF CallOf({"while", "for"}) THEN No("Loops not allowed")
      ELSE IF \E i \in 1..n : Decl("let", i) THEN No("Variable reassignment (let) not allowed")
      ELSE IF CallOf({"set_head", "set_tail"}) THEN No("Mutation not allowed")
      ELSE IF \E a \in LineStarts : Reassigns(a) THEN No("Reassignment not allowed")
      ELSE IF \E i \in 1..n : code[i] \in {"stream", "stream_tail", "stream_map", "stream_filter"}
           THEN No("Streams not allowed")
      ELSE IF ArrayLiteral /\ ~ListNotation THEN No("Array literals not allowed")
      ELSE [valid |-> TRUE, message |-> ""]

\* statements of Source programs, tokenised
Statements ==
  { <<"while", " ", "(", "true", ")", " ", "{", " ", "}">>,
    <<"while", "(", "x", ")", "{", "}">>,
    <<"for", " ", "(", ";", ";", ")", " ", "{", "}">>,
    <<"mywhile", "(", "1", ")", ";">>,
    <<"list", "(", "1", ",", " ", "2", ")", ";">>,
    <<"pair", " ", "(", "1", ",", " ", "2", ")", ";">>,
    <<"head", "(", "xs", ")", ";">>,
    <<"let", " ", "y", " ", "=", " ", "1", ";">>,
    <<"const", " ", "x", " ", "=", " ", "1", ";">>,
    <<"x", " ", "=", " ", "2", ";">>,
    <<"x", " ", "===", " ", "1", ";">>,
    <<"const", " ", "f", " ", "=", " ", "x", " ", "=>", " ", "x", ";">>,
    <<"set_head", "(", "xs", ",", " ", "1", ")", ";">>,
    <<"stream_tail", "(", "s", ")", ";">>,
    <<"[", "1", ",", " ", "2", "]", ";">>,
    <<"[", "1", ",", " ", "[", "2", ",", " ", "null", "]", "]", ";">>,
    <<"1", " ", "+", " ", "2", ";">> }

Chapters == 1..4

ConstraintCalls ==
  {Call("check_chapter_constraints", [code |-> c, chapter |-> ch]) :
     c \in Statements \cup {s \o <<"\n">> \o t : s, t \in Statements},
     ch \in Chapters}

CheckConstraintsCall ==
  /\ fcall.fn = "check_chapter_constraints"
  /\ ~fcall.done
  /\ Return(CheckChapterConstraints(fcall.args.code, fcall.args.chapter))

HasLoop == \E i \in 1..Len(fcall.args.code) :
             /\ fcall.args.code[i] = "while"
             /\ i < Len(fcall.args.code)
             /\ fcall.args.code[i + 1] \in {"(", " "}

\* C16 as stated: chapter-1 code with a while loop is invalid with the loop
\* message, whichever other constructs it contains
C16_LoopMessageAlways ==
  (Returned_("check_chapter_constraints") /\ fcall.args.chapter = 1 /\ HasLoop)
    => (~fcall.out.valid /\ fcall.out.message = "Loops not allowed")

EarlierMessages ==
  {"list() not allowed", "pair() not allowed", "List operations not allowed"}

\* C16: chapter-1 code with a while loop is reported invalid; the message is
\* the loop one unless the code also calls list(), pair() or a list
\* operation, whose check comes first and whose message is then returned
C16_LoopInvalid ==
  (Returned_("check_chapter_constraints") /\ fcall.args.chapter = 1 /\ HasLoop)
    => /\ ~fcall.out.valid
       /\ fcall.out.message \in {"Loops not allowed"} \cup EarlierMessages
       /\ (fcall.out.message \in EarlierMessages)
            = (\E i \in 1..Len(fcall.args.code) :
                 fcall.args.code[i] \in {"list", "pair", "head"})

C16_Witness ==
  /\ Returned_("check_chapter_constraints")
  /\ fcall.args.chapter = 1
  /\ fcall.args.code = <<"while", " ", "(", "true", ")", " ", "{", " ", "}">>
  /\ fcall.out = [valid |-> FALSE, message |-> "Loops not allowed"]

(***************************************************************************)
(* DifficultyAnalyzer.classify_difficulty                                  *)
(* The cognitive load is a float, counted in quarters.                     *)
(***************************************************************************)
Levels == <<"easy", "medium", "hard", "very_hard">>

DIFFICULTY_THRESHOLDS ==
  [easy      |-> [trace_length |-> <<3, 5>>, concept_count |-> 1,
                  nesting_depth |-> 2, cognitive_load |-> <<0, 12>>],
   medium    |-> [trace_length |-> <<6, 10>>, concept_count |-> 2,
                  nesting_depth |-> 4, cognitive_load |-> <<12, 24>>],
   hard      |-> [trace_length |-> <<11, 20>>, concept_count |-> 3,
                  nesting_depth |-> 6, cognitive_load |-> <<24, 32>>],
   very_hard |-> [trace_length |-> <<21, 50>>, concept_count |-> 4,
                  nesting_depth |-> 10, cognitive_load |-> <<32, 40>>]]

LevelScore(level, metrics) ==
  LET thresholds == DIFFICULTY_THRESHOLDS[level]
      trace_min == thresholds.trace_length[1]
      trace_max == thresholds.trace_length[2]
      load_min == thresholds.cognitive_load[1]
      load_max == thresholds.cognitive_load[2]
  IN  (IF trace_min =< metrics.trace_length_estimate
            /\ metrics.trace_length_estimate =< trace_max THEN 2
       ELSE IF metrics.trace_length_estimate < trace_min THEN 0 - 1
       ELSE 0)
      + (IF metrics.concept_count =< thresholds.concept_count THEN 1 ELSE 0)
      + (IF metrics.nesting_depth =< thresholds.nesting_depth THEN 1 ELSE 0)
      + (IF load_min =< metrics.cognitive_load
             /\ metrics.cognitive_load =< load_max THEN 2 ELSE 0)

\* max(scores, key=scores.get) over an empty dict raises ValueError
NoLevel == "ValueError"

\* classify_difficulty that only keeps the bins with a positive score
ClassifyDifficultyPositive(metrics) ==
  LET best == {i \in 1..4 : LevelScore(Levels[i], metrics) > 0}
  IN  IF best = {} THEN NoLevel ELSE Levels[CHOOSE i \in best : \A j \in best : i =< j]

\* classify_difficulty that keeps the last of the highest-scoring bins
ClassifyDifficultyLast(metrics) ==
  LET best == {i \in 1..4 : \A j \in 1..4 :
                 LevelScore(Levels[j], metrics) =< LevelScore(Levels[i], metrics)}
  IN  Levels[CHOOSE i \in best : \A j \in best : j =< i]

\* max(scores, key=scores.get): the first level, in the order of the dict,
\* whose score is the highest
ClassifyDifficulty(metrics) ==
  LET scores == [i \in 1..4 |-> LevelScore(Levels[i], metrics)]
      best == {i \in 1..4 : \A j \in 1..4 : scores[j] =< scores[i]}
  IN  Levels[CHOOSE i \in best : \A j \in best : i =< j]

TraceLengths == {0 - 1, 0, 2, 3, 4, 5, 6, 7, 10, 11, 12, 20, 21, 22, 50, 51, 52}

ConceptCounts == 0..5

NestingDepths == {0, 2, 3, 4, 5, 6, 7, 10, 11}

CognitiveLoads ==
  {0 - 4, 0 - 1, 0, 1, 11, 12, 13, 23, 24, 25, 31, 32, 33, 39, 40, 41, 44}

ClassifyCalls ==
  {Call("classify_difficulty",
        [trace_length_estimate |-> t, concept_count |-> c,
         nesting_depth |-> d, cognitive_load |-> l]) :
     t \in TraceLengths, c \in ConceptCounts, d \in NestingDepths,
     l \in CognitiveLoads}

ClassifyCall ==
  /\ fcall.fn = "classify_difficulty"
  /\ ~fcall.done
  /\ Return(ClassifyDifficulty(fcall.args))

\* C17: classify_difficulty returns one of the four labels for every
\* metrics value, those outside every bin's range included
C17_AlwaysALabel ==
  Returned_("classify_difficulty")
    => fcall.out \in {"easy", "medium", "hard", "very_hard"}

\* metrics outside every bin: no bin scores above 0, a label is returned
C17_Witness ==
  /\ Returned_("classify_difficulty")
  /\ fcall.args.trace_length_estimate > 50
  /\ fcall.args.concept_count > 4
  /\ fcall.args.nesting_depth > 10
  /\ fcall.args.cognitive_load > 40
  /\ fcall.out = "easy"

(***************************************************************************)
(* One call of DistractorComputer._parse_value on a string                 *)
(***************************************************************************)
MaxParseInt == 120

\* strings that are no integer, float, boolean or null literal
NonLiterals ==
  { <<"a", "b", "c">>, sOn, sList1, sIterativeProcess, <<>>, <<"-">>,
    <<"-", "-", "5">>, <<"+", "5">>, <<"5", "-">>, <<"1", "2", "a">>,
    <<"1", ".", "2", ".", "3">>, <<"e">>, <<"x", "y", " ">>,
    <<" ", "O", "(", "n", ")">>, <<"a", " ", "b">> }

ParseCalls ==
  {Call("_parse_value", [value |-> PyStr(s)]) :
     s \in {IntStr(n) : n \in (0 - MaxParseInt)..MaxParseInt} \cup NonLiterals}

ParseCall ==
  /\ fcall.fn = "_parse_value"
  /\ ~fcall.done
  /\ Return(ParseValue(fcall.args.value))

IntegerRoundTrip ==
  \A n \in (0 - MaxParseInt)..MaxParseInt :
    fcall.args.value.s = IntStr(n)
      => /\ fcall.out = PyInt(n)
         /\ GetValueType(fcall.out) = "numeric"
         /\ PyStrOf(fcall.out) = fcall.args.value.s

\* C18 as stated: the decimal string of n parses to n, numeric, rendering
\* back to the string; a string that is no literal is returned unchanged
C18_RoundTripAndUnchanged ==
  Returned_("_parse_value")
    => /\ IntegerRoundTrip
       /\ fcall.args.value.s \in NonLiterals => fcall.out = fcall.args.value

\* C18: the decimal string of n parses to n, numeric, rendering back to the
\* string; a string that is no literal is returned as a string, stripped of
\* the whitespace around it
C18_RoundTripAndStripped ==
  Returned_("_parse_value")
    => /\ IntegerRoundTrip
       /\ fcall.args.value.s \in NonLiterals
            => fcall.out = PyStr(Strip(fcall.args.value.s))

C18_Witness ==
  /\ Returned_("_parse_value")
  /\ fcall.args.value.s = <<"-", "1", "2", "0">>
  /\ fcall.out = PyInt(0 - 120)
  /\ PyStrOf(fcall.out) = <<"-", "1", "2", "0">>

(***************************************************************************)
(* ConceptSelector.select_concepts over a knowledge graph                  *)
(* syllabus.json is data: the knowledge graphs are the documents with      *)
(* topics, each of a chapter in 1..4, one at least of chapter 1, and       *)
(* relationships between topics.                                           *)
(***************************************************************************)
TopicIds == {"recursion", "lists", "streams"}

Syllabi ==
  {[chapter |-> ch, relationships |-> rel] :
     ch \in {f \in [TopicIds -> 1..4] : \E t \in TopicIds : f[t] = 1},
     rel \in SUBSET {<<"recursion", "lists">>, <<"lists", "streams">>,
                     <<"streams", "recursion">>, <<"recursion", "recursion">>}}

\* _build_graph: the adjacency of a topic, in both directions
Graph(syllabus, node) ==
  {r[2] : r \in {q \in syllabus.relationships : q[1] = node}}
    \cup {r[1] : r \in {q \in syllabus.relationships : q[2] = node}}

\* get_neighbors that forgets to leave the starting concept out
GetNeighborsWithSelf(syllabus, concept_id, max_hops) ==
  LET level1 == Graph(syllabus, concept_id)
  IN  IF max_hops = 1 THEN level1
      ELSE level1 \cup UNION {Graph(syllabus, n) : n \in level1}

GetNeighbors(syllabus, concept_id, max_hops) ==
  LET level1 == Graph(syllabus, concept_id) \ {concept_id}
      level2 == UNION {Graph(syllabus, n) : n \in level1}
                  \ (level1 \cup {concept_id})
  IN  IF max_hops = 1 THEN level1 ELSE level1 \cup level2

\* the lists select_concepts can return, one per outcome of the random draws
SelectConceptsFrom(syllabus, ch, level) ==
  LET available == {t \in TopicIds : syllabus.chapter[t] =< ch}
      Valid(core_id, hops) ==
        {n \in GetNeighbors(syllabus, core_id, hops) : syllabus.chapter[n] =< ch}
      From(core_id) ==
        IF level = "easy" THEN {<<core_id>>}
        ELSE IF level = "medium"
        THEN IF Valid(core_id, 1) # {}
             THEN {<<core_id, related>> : related \in Valid(core_id, 1)}
             ELSE {<<core_id>>}
        ELSE IF Cardinality(Valid(core_id, 2)) >= 2
             THEN {<<core_id, r1, r2>> : r1, r2 \in Valid(core_id, 2)}
                    \ {<<core_id, r, r>> : r \in Valid(core_id, 2)}
             ELSE IF Cardinality(Valid(core_id, 2)) = 1
             THEN {<<core_id, r>> : r \in Valid(core_id, 2)}
             ELSE {<<core_id>>}
  IN  IF available = {} THEN {Raise("ValueError")}
      ELSE UNION {From(core_id) : core_id \in available}

SelectCalls ==
  {Call("select_concepts", [syllabus |-> s, chapter |-> ch, difficulty |-> d]) :
     s \in Syllabi, ch \in 1..4, d \in {"easy", "medium", "hard", "very_hard"}}

SelectConceptsCall ==
  /\ fcall.fn = "select_concepts"
  /\ ~fcall.done
  /\ \E concepts \in SelectConceptsFrom(fcall.args.syllabus, fcall.args.chapter,
                                         fcall.args.difficulty) :
       Return(concepts)

Related(a, b) ==
  <<a, b>> \in fcall.args.syllabus.relationships
    \/ <<b, a>> \in fcall.args.syllabus.relationships

RECURSIVE BitLength(_)
BitLength(n) ==
  IF n = 0 THEN 0 ELSE 1 + BitLength(n \div 2)

\* (estimated_depth, branching_factor)
AnalyzeRecursion(code, input_size) ==
  LET n == Len(code)
      IsWord(t) == t \notin Blanks \cup Punctuation
      Skip(i) == CHOOSE j \in i..(n + 1) :
                   /\ \A k \in i..(j - 1) : code[k] \in Blanks
                   /\ j = n + 1 \/ code[j] \notin Blanks
      At(i, toks) == i =< n /\ code[i] \in toks
      \* (\w+)\s*=\s*(?:\([^)]*\)|[\w]+)\s*=> with the name at i
      ArrowDef(i) ==
        /\ IsWord(code[i])
        /\ At(Skip(i + 1), {"="})
        /\ LET a == Skip(Skip(i + 1) + 1)
           IN  \/ a =< n /\ IsWord(code[a]) /\ At(Skip(a + 1), {"=>"})
               \/ /\ At(a, {"("})
                  /\ \E c \in (a + 1)..n :
                       /\ code[c] = ")"
                       /\ \A k \in (a + 1)..(c - 1) : code[k] # ")"
                       /\ At(Skip(c + 1), {"=>"})
      \* function\s+(\w+) with the name at i
      FunctionDef(i) ==
        /\ IsWord(code[i])
        /\ \E f \in 1..(i - 2) :
             code[f] = "function" /\ code[f + 1] \in Blanks /\ Skip(f + 1) = i
      func_defs == {code[i] : i \in {k \in 1..n : ArrowDef(k) \/ FunctionDef(k)}}
      \* len(re.findall(rf'\b{func_name}\s*\(', code))
      Calls(func_name) ==
        Cardinality({i \in 1..n : code[i] = func_name /\ At(Skip(i + 1), {"("})})
      recursive == {f \in func_defs : Calls(f) >= 2}
      branching_factor ==
        CHOOSE b \in {Calls(f) - 1 : f \in recursive} :
          \A f \in recursive : Calls(f) - 1 =< b
      \* /\s*2|>>|Math\.floor
      halving ==
        \/ \E i \in 1..n : code[i] = "/" /\ At(Skip(i + 1), {"2"})
        \/ \E i \in 1..n : code[i] = ">>"
        \/ \E i \in 1..(n - 2) :
             code[i] = "Math" /\ code[i + 1] = "." /\ code[i + 2] = "floor"
      depth == IF halving
               THEN IF BitLength(input_size) > 1 THEN BitLength(input_size) ELSE 1
               ELSE input_size
  IN  IF recursive = {} THEN [depth |-> 1, branching_factor |-> 1]
      ELSE [depth |-> depth, branching_factor |-> branching_factor]

fHalving ==
  <<"function", " ", "f", "(", "n", ")", " ", "{", " ", "return", " ", "n",
    " ", "===", " ", "0", " ", "?", " ", "0", " ", ":", " ", "f", "(", "n",
    " ", "/", " ", "2", ")", ";", " ", "}">>

fLinear ==
  <<"function", " ", "f", "(", "n", ")", " ", "{", " ", "return", " ", "n",
    " ", "===", " ", "0", " ", "?", " ", "0", " ", ":", " ", "f", "(", "n",
    " ", "-", " ", "1", ")", ";", " ", "}">>

fShift ==
  <<"const", " ", "f", " ", "=", " ", "n", " ", "=>", " ", "n", " ", "===",
    " ", "0", " ", "?", " ", "0", " ", ":", " ", "f", "(", "n", " ", ">>",
    " ", "1", ")", ";", "\n", "f", "(", "8", ")", ";">>

fFib ==
  <<"function", " ", "fib", "(", "n", ")", " ", "{", " ", "return", " ", "n",
    " ", "<", " ", "2", " ", "?", " ", "n", " ", ":", " ", "fib", "(", "n",
    " ", "-", " ", "1", ")", " ", "+", " ", "fib", "(", "n", " ", "-", " ",
    "2", ")", ";", " ", "}">>

fFloor ==
  <<"const", " ", "h", " ", "=", " ", "(", "n", ")", " ", "=>", " ", "n",
    " ", "<", " ", "1", " ", "?", " ", "0", " ", ":", " ", "h", "(", "Math",
    ".", "floor", "(", "n", "/", "2", ")", ")", ";", "\n", "h", "(", "5",
    ")", ";">>

fNotRecursive ==
  <<"const", " ", "g", " ", "=", " ", "n", " ", "=>", " ", "n", " ", "/",
    " ", "2", ";", "\n", "g", "(", "4", ")", ";">>

MaxInputSize == 17

RecursionCalls ==
  {Call("_analyze_recursion", [code |-> c, input_size |-> k]) :
     c \in {fHalving, fLinear, fShift, fFib, fFloor, fNotRecursive,
            <<"1", " ", "+", " ", "2", ";">>},
     k \in 1..MaxInputSize}

AnalyzeRecursionCall ==
  /\ fcall.fn = "_analyze_recursion"
  /\ ~fcall.done
  /\ Return(AnalyzeRecursion(fcall.args.code, fcall.args.input_size))

\* the least k with 2^k >= n
RECURSIVE CeilLog2(_)
CeilLog2(n) ==
  IF n =< 1 THEN 0 ELSE 1 + CeilLog2((n + 1) \div 2)

\* C20: for recursive code with a halving pattern the depth is
\* ceil(log2(input_size)) for every input_size >= 1, powers of two included;
\* without a halving pattern it is input_size
C20_HalvingDepth ==
  Returned_("_analyze_recursion")
    => /\ fcall.args.code \in {fHalving, fShift, fFloor}
            => fcall.out.depth = CeilLog2(fcall.args.input_size)
       /\ fcall.args.code \in {fLinear, fFib}
            => fcall.out.depth = fcall.args.input_size

(***************************************************************************)
(* DifficultyAnalyzer._estimate_trace_length                               *)
(***************************************************************************)
\* len(re.findall(r'[+\-*/]|===|!==|>=|<=|&&|\|\|', code))
OperatorCount(code) ==
  Cardinality({i \in 1..Len(code) :
     code[i] \in {"+", "-", "*", "/", "===", "!==", ">=", "<=", "&&", "||"}})

\* the words of the code that a run of blanks and a ( follow
CallsOf(code, words) ==
  {i \in 1..Len(code) :
     /\ code[i] \in words
     /\ \E j \in (i + 1)..Len(code) :
          code[j] = "(" /\ \A k \in (i + 1)..(j - 1) : code[k] \in Blanks}

\* len(re.findall(r'\w+\s*\(', code))
CallCount(code) ==
  Cardinality(CallsOf(code, {code[i] : i \in 1..Len(code)} \ (Blanks \cup Punctuation)))

\* len(re.findall(r'\b(map|filter|accumulate|append|reverse)\s*\(', code))
ListLibraryOps(code) ==
  Cardinality(CallsOf(code, {"map", "filter", "accumulate", "append", "reverse"}))

MaxTotalCalls == 1000

\* _estimate_trace_length without the floor of one step per level
EstimateTraceLengthNoFloor(code, input_size, recursive_depth, branching_factor) ==
  (OperatorCount(code) + CallCount(code) \div 2)
     * (IF branching_factor >= 2 /\ branching_factor ^ recursive_depth < MaxTotalCalls
        THEN branching_factor ^ recursive_depth
        ELSE IF branching_factor >= 2 THEN MaxTotalCalls ELSE recursive_depth)
     + ListLibraryOps(code) * input_size

EstimateTraceLength(code, input_size, recursive_depth, branching_factor) ==
  LET operations == OperatorCount(code)
      func_calls == CallCount(code)
      steps_per_level == IF operations + func_calls \div 2 > 1
                         THEN operations + func_calls \div 2 ELSE 1
      power == branching_factor ^ recursive_depth
      total_calls == IF branching_factor >= 2
                     THEN IF power < MaxTotalCalls THEN power ELSE MaxTotalCalls
                     ELSE recursive_depth
      list_overhead == ListLibraryOps(code) * input_size
  IN  steps_per_level * total_calls + list_overhead

sName == <<"x", ";">>

sMapCall == <<"map", "(", "f", ",", " ", "xs", ")", ";">>

sOneCall == <<"g", " ", "(", "x", ")", ";">>

MaxDepth == 7

MaxBranching == 3

MaxSize == 2

TraceCalls ==
  {Call("_estimate_trace_length",
        [code |-> c, input_size |-> k, recursive_depth |-> d, branching_factor |-> b]) :
     c \in {fHalving, fFib, fFloor, fNotRecursive, sName, sMapCall, sOneCall},
     k \in 1..MaxSize, d \in 1..MaxDepth, b \in 1..MaxBranching}

EstimateTraceCall ==
  /\ fcall.fn = "_estimate_trace_length"
  /\ ~fcall.done
  /\ Return(EstimateTraceLength(fcall.args.code, fcall.args.input_size,
                                fcall.args.recursive_depth, fcall.args.branching_factor))

\* min(1000, branching_factor^depth) for branching >= 2, else depth
TotalCallsOfCall ==
  IF fcall.args.branching_factor < 2 THEN fcall.args.recursive_depth
  ELSE IF fcall.args.branching_factor ^ fcall.args.recursive_depth < 1000
  THEN fcall.args.branching_factor ^ fcall.args.recursive_depth
  ELSE 1000

StepsOfCall ==
  OperatorCount(fcall.args.code) + CallCount(fcall.args.code) \div 2

\* C21 as stated: the estimate is (operator_count + call_count/2) x
\* total_calls + list_library_ops x input_size, the half rounded down
C21_TraceLengthFormula ==
  Returned_("_estimate_trace_length")
    => fcall.out = StepsOfCall * TotalCallsOfCall
                     + ListLibraryOps(fcall.args.code) * fcall.args.input_size

\* C21: the estimate is max(1, operator_count + call_count/2) x total_calls
\* + list_library_ops x input_size, the half rounded down
C21_TraceLengthFloored ==
  Returned_("_estimate_trace_length")
    => fcall.out = (IF StepsOfCall > 1 THEN StepsOfCall ELSE 1) * TotalCallsOfCall
                     + ListLibraryOps(fcall.args.code) * fcall.args.input_size

\* tree recursion whose branching_factor^depth passes the cap, on code with
\* no operator and no call
C21_Witness ==
  /\ Returned_("_estimate_trace_length")
  /\ fcall.args.code = sName
  /\ fcall.args.branching_factor = 3
  /\ fcall.args.recursive_depth = 7
  /\ fcall.out = 1000

\* the score the claim gives bin i for the metrics of the call, the loads
\* in quarters: +2 trace inside, -1 trace below, +1 concepts within,
\* +1 nesting within, +2 load inside
BinScore(i) ==
  LET m == fcall.args
      tmin == <<3, 6, 11, 21>>[i]
      tmax == <<5, 10, 20, 50>>[i]
      lmin == <<0, 12, 24, 32>>[i]
      lmax == <<12, 24, 32, 40>>[i]
  IN  (IF m.trace_length_estimate >= tmin /\ m.trace_length_estimate =< tmax THEN 2 ELSE 0)
      - (IF m.trace_length_estimate < tmin THEN 1 ELSE 0)
      + (IF m.concept_count =< i THEN 1 ELSE 0)
      + (IF m.nesting_depth =< <<2, 4, 6, 10>>[i] THEN 1 ELSE 0)
      + (IF m.cognitive_load >= lmin /\ m.cognitive_load =< lmax THEN 2 ELSE 0)

\* C22: classify_difficulty returns the highest-scoring bin under the
\* claim's scoring and, on a tie, the first in the order easy, medium, hard,
\* very_hard
C22_FirstHighestBin ==
  Returned_("classify_difficulty")
    => \E i \in 1..4 :
         /\ fcall.out = <<"easy", "medium", "hard", "very_hard">>[i]
         /\ \A j \in 1..4 : BinScore(j) =< BinScore(i)
         /\ \A j \in 1..(i - 1) : BinScore(j) < BinScore(i)

\* two bins tie for a positive highest score and the earlier one is returned
C22_Witness ==
  /\ Returned_("classify_difficulty")
  /\ fcall.out = "medium"
  /\ BinScore(2) = BinScore(3)
  /\ BinScore(2) > 0
  /\ \A j \in 1..4 : BinScore(j) =< BinScore(2)

(***************************************************************************)
(* _parse_list_structure applied to the _list_to_source of a list          *)
(***************************************************************************)
MaxListLen == 3

\* the proper lists of integers of length 0..MaxListLen
IntLists ==
  UNION {[1..n -> {PyInt(0 - 1), PyInt(2), PyInt(10)}] : n \in 0..MaxListLen}

ListCalls == {Call("_parse_list_structure", [elements |-> l]) : l \in IntLists}

ListRoundTripCall ==
  /\ fcall.fn = "_parse_list_structure"
  /\ ~fcall.done
  /\ Return([source |-> ListToSource(fcall.args.elements),
             parsed |-> ParseListStructure(PyStr(ListToSource(fcall.args.elements)))])

\* C23: for a non-empty proper list of integers L, parsing the source
\* notation of L gives L back, and rendering the parsed list gives the same
\* string
C23_ListRoundTrip ==
  (Returned_("_parse_list_structure") /\ fcall.args.elements # <<>>)
    => /\ fcall.out.parsed.ok
       /\ fcall.out.parsed.l = fcall.args.elements
       /\ ListToSource(fcall.out.parsed.l) = fcall.out.source

(***************************************************************************)
(* QuestionScorer.score_question and its five sub-scores                   *)
(* A score of 0-1 is counted in units of 1/1200, every value the code can  *)
(* form being a whole number of them.  What the regular expressions find   *)
(* in the code and the question text is an input.                          *)
(***************************************************************************)
Part(n, d) == (1200 * n) \div d

RECURSIVE SumOf(_)
SumOf(s) ==
  IF s = <<>> THEN 0 ELSE Head(s) + SumOf(Tail(s))

\* concepts: one record per concept, what CONCEPT_PATTERNS says of it
ScoreConceptValidity(concepts) ==
  LET weight(c) == IF c.weight = "0.8" THEN Part(8, 10) ELSE Part(1, 1)
      score(c) == IF ~c.known THEN Part(7, 10)
                  ELSE IF ~c.required_found THEN (3 * weight(c)) \div 10
                  ELSE IF c.forbidden_found THEN (5 * weight(c)) \div 10
                  ELSE weight(c)
      scores == [k \in 1..Len(concepts) |-> score(concepts[k])]
  IN  IF scores # <<>> THEN SumOf(scores) \div Len(scores) ELSE Part(1, 2)

\* _score_distractor_quality whose count score is not capped at 1
ScoreDistractorQualityUncapped(distractors, distinct) ==
  LET n == Len(distractors)
      wrong == Cardinality({k \in 1..n : distractors[k].wrong_type})
      known == Cardinality({k \in 1..n : distractors[k].misconception = "known"})
      labelled == Cardinality({k \in 1..n : distractors[k].misconception = "labelled"})
  IN  IF n = 0 THEN 0
      ELSE (3 * (Part(1, 1) - Part(wrong, n))
              + 2 * (IF distinct THEN Part(1, 1) ELSE Part(1, 2))
              + 3 * Part(2 * known + labelled, 2 * n)
              + 2 * Part(n, 3)) \div 10

\* distractors: one record per distractor, whether its type differs from the
\* correct answer's and what its misconception label is; distinct: whether
\* the rendered values and the correct answer are all different
ScoreDistractorQuality(distractors, distinct) ==
  LET n == Len(distractors)
      type_mismatches == Cardinality({k \in 1..n : distractors[k].wrong_type})
      \* plausible_count, in halves
      plausible(d) == IF d.misconception = "known" THEN 2
                      ELSE IF d.misconception = "labelled" THEN 1 ELSE 0
      plausible_count == SumOf([k \in 1..n |-> plausible(distractors[k])])
      type_score == Part(1, 1) - Part(type_mismatches, n)
      distinct_score == IF distinct THEN Part(1, 1) ELSE Part(1, 2)
      plausible_score == Part(plausible_count, 2 * n)
      count_score == IF n < 3 THEN Part(n, 3) ELSE Part(1, 1)
  IN  IF n = 0 THEN 0
      ELSE (3 * type_score + 2 * distinct_score + 3 * plausible_score + 2 * count_score)
             \div 10

difficulty_order == <<"easy", "medium", "hard", "very_hard">>

ScoreDifficultyCalibration(target_difficulty, actual_difficulty) ==
  LET Index(d) == CHOOSE i \in 1..4 : difficulty_order[i] = d
      known(d) == \E i \in 1..4 : difficulty_order[i] = d
      diff == IF Index(target_difficulty) > Index(actual_difficulty)
              THEN Index(target_difficulty) - Index(actual_difficulty)
              ELSE Index(actual_difficulty) - Index(target_difficulty)
  IN  IF actual_difficulty = "None" THEN Part(7, 10)
      ELSE IF ~known(target_difficulty) \/ ~known(actual_difficulty) THEN Part(1, 2)
      ELSE IF diff = 0 THEN Part(1, 1)
      ELSE IF diff = 1 THEN Part(75, 100)
      ELSE IF diff = 2 THEN Part(4, 10)
      ELSE Part(1, 10)

\* code: the line count and what the style checks find
ScoreCodeClarity(code) ==
  LET score == Part(1, 1)
                 - (IF code.lines < 3 THEN Part(2, 10)
                    ELSE IF code.lines > 20 THEN Part(15, 100) ELSE 0)
                 - (IF code.single_letter_vars > 3 THEN Part(1, 10) ELSE 0)
                 - (IF code.long_lines > 2 THEN Part(1, 10) ELSE 0)
                 - (IF code.has_comments THEN Part(1, 10) ELSE 0)
                 - (IF code.uses_arrow /\ code.uses_function THEN Part(1, 10) ELSE 0)
  IN  IF score > 0 THEN score ELSE 0

\* text: whether there is a question text and what the checks find in it
ScoreQuestionClarity(text) ==
  LET score == Part(1, 1)
                 - (IF ~text.code_included THEN Part(2, 10) ELSE 0)
                 - (IF ~text.has_clear_question THEN Part(15, 100) ELSE 0)
                 - (IF ~text.has_options THEN Part(2, 10) ELSE 0)
                 - (IF ~text.answer_included THEN Part(3, 10) ELSE 0)
                 - (IF text.ambiguous THEN Part(1, 10) ELSE 0)
  IN  IF text.empty THEN Part(1, 2)
      ELSE IF score > 0 THEN score ELSE 0

\* the QualityScore: the sub-scores in units of 1/12 of a point, the total
\* in units of 1/240 of a point
ScoreQuestion(a) ==
  LET concept_score == ScoreConceptValidity(a.concepts)
      distractor_score == ScoreDistractorQuality(a.distractors, a.distinct)
      difficulty_score == ScoreDifficultyCalibration(a.target_difficulty, a.actual_difficulty)
      code_score == ScoreCodeClarity(a.code)
      question_score == ScoreQuestionClarity(a.question_text)
  IN  [total_score |-> 5 * concept_score + 5 * distractor_score + 4 * difficulty_score
                         + 3 * code_score + 3 * question_score,
       concept_validity |-> concept_score,
       distractor_quality |-> distractor_score,
       difficulty_calibration |-> difficulty_score,
       code_clarity |-> code_score,
       question_clarity |-> question_score]

ConceptInputs ==
  LET c(k, r, f, w) == [known |-> k, required_found |-> r, forbidden_found |-> f, weight |-> w]
  IN  { <<>>,
        <<c(TRUE, TRUE, FALSE, "1.0")>>,
        <<c(TRUE, FALSE, FALSE, "0.8")>>,
        <<c(TRUE, TRUE, TRUE, "0.8"), c(FALSE, FALSE, FALSE, "1.0")>>,
        <<c(TRUE, TRUE, FALSE, "1.0"), c(TRUE, TRUE, FALSE, "0.8"), c(TRUE, FALSE, TRUE, "1.0")>>,
        <<c(TRUE, TRUE, FALSE, "1.0"), c(TRUE, TRUE, FALSE, "1.0")>> }

DistractorInputs ==
  LET d(w, m) == [wrong_type |-> w, misconception |-> m]
  IN  { <<>>,
        <<d(TRUE, "generic")>>,
        <<d(FALSE, "known"), d(TRUE, "labelled")>>,
        <<d(FALSE, "known"), d(FALSE, "known"), d(FALSE, "known")>>,
        <<d(TRUE, "generic"), d(TRUE, "generic"), d(TRUE, "generic")>>,
        <<d(FALSE, "known"), d(FALSE, "labelled"), d(TRUE, "generic")>>,
        <<d(FALSE, "known"), d(FALSE, "known"), d(FALSE, "known"), d(FALSE, "known")>>,
        <<d(FALSE, "labelled"), d(TRUE, "known"), d(FALSE, "generic"), d(FALSE, "labelled")>> }

CodeInputs ==
  LET k(l, v, ll, c, a, f) ==
        [lines |-> l, single_letter_vars |-> v, long_lines |-> ll,
         has_comments |-> c, uses_arrow |-> a, uses_function |-> f]
  IN  { k(5, 0, 0, FALSE, TRUE, FALSE), k(1, 0, 0, FALSE, TRUE, FALSE),
        k(2, 4, 3, TRUE, TRUE, TRUE), k(21, 4, 3, TRUE, TRUE, TRUE),
        k(21, 0, 0, FALSE, FALSE, TRUE), k(8, 4, 0, TRUE, FALSE, FALSE) }

TextInputs ==
  LET t(e, c, q, o, a, m) ==
        [empty |-> e, code_included |-> c, has_clear_question |-> q,
         has_options |-> o, answer_included |-> a, ambiguous |-> m]
  IN  { t(TRUE, FALSE, FALSE, FALSE, FALSE, FALSE),
        t(FALSE, TRUE, TRUE, TRUE, TRUE, FALSE),
        t(FALSE, FALSE, FALSE, FALSE, FALSE, TRUE),
        t(FALSE, TRUE, FALSE, TRUE, FALSE, FALSE),
        t(FALSE, FALSE, TRUE, FALSE, TRUE, TRUE) }

ScoreCalls ==
  {Call("score_question",
        [concepts |-> c, distractors |-> d, distinct |-> u,
         target_difficulty |-> td, actual_difficulty |-> ad,
         code |-> k, question_text |-> t]) :
     c \in ConceptInputs, d \in DistractorInputs, u \in BOOLEAN,
     td \in {"easy", "hard", "expert"}, ad \in {"None", "easy", "very_hard"},
     k \in CodeInputs, t \in TextInputs}

ScoreQuestionCall ==
  /\ fcall.fn = "score_question"
  /\ ~fcall.done
  /\ Return(ScoreQuestion(fcall.args))

SubScores ==
  <<fcall.out.concept_validity, fcall.out.distractor_quality,
    fcall.out.difficulty_calibration, fcall.out.code_clarity,
    fcall.out.question_clarity>>

\* C24: the five sub-scores lie in [0,100], the total is the sum of the
\* sub-scores weighted 0.25, 0.25, 0.20, 0.15, 0.15, it lies in [0,100] and
\* is 100 only when all five sub-scores are 100 (100 points are 1200 units
\* of a sub-score and 24000 units of the total)
C24_WeightedTotal ==
  Returned_("score_question")
    => /\ \A i \in 1..5 : SubScores[i] >= 0 /\ SubScores[i] =< 1200
       /\ fcall.out.total_score
            = 5 * SubScores[1] + 5 * SubScores[2] + 4 * SubScores[3]
                + 3 * SubScores[4] + 3 * SubScores[5]
       /\ fcall.out.total_score >= 0 /\ fcall.out.total_score =< 24000
       /\ fcall.out.total_score = 24000 => \A i \in 1..5 : SubScores[i] = 1200

\* four distractors, all of the right type with known misconceptions: the
\* count score is capped and the distractor quality is exactly 100
C24_Witness ==
  /\ Returned_("score_question")
  /\ Len(fcall.args.distractors) = 4
  /\ fcall.out.distractor_quality = 1200
  /\ fcall.out.total_score = 24000

(***************************************************************************)
(* DifficultyAnalyzer._measure_nesting_depth, the text a sequence of       *)
(* characters                                                              *)
(***************************************************************************)
\* the loop with a counter that is not floored at 0
RECURSIVE TrackDepthUnfloored(_, _, _, _)
TrackDepthUnfloored(code, k, max_depth, current_depth) ==
  IF k > Len(code) THEN max_depth
  ELSE IF code[k] \in {"(", "[", "{"}
  THEN TrackDepthUnfloored(code, k + 1,
                  IF current_depth + 1 > max_depth THEN current_depth + 1 ELSE max_depth,
                  current_depth + 1)
  ELSE IF code[k] \in {")", "]", "}"}
  THEN TrackDepthUnfloored(code, k + 1, max_depth, current_depth - 1)
  ELSE TrackDepthUnfloored(code, k + 1, max_depth, current_depth)

\* the (max_depth, current_depth) of the loop after the characters from k on
RECURSIVE TrackDepth(_, _, _, _)
TrackDepth(code, k, max_depth, current_depth) ==
  IF k > Len(code) THEN max_depth
  ELSE IF code[k] \in {"(", "[", "{"}
  THEN TrackDepth(code, k + 1,
                  IF current_depth + 1 > max_depth THEN current_depth + 1 ELSE max_depth,
                  current_depth + 1)
  ELSE IF code[k] \in {")", "]", "}"}
  THEN TrackDepth(code, k + 1, max_depth,
                  IF current_depth - 1 > 0 THEN current_depth - 1 ELSE 0)
  ELSE TrackDepth(code, k + 1, max_depth, current_depth)

\* len(re.findall(r'\?[^:]*\?', code)): the scan from k on; a match starts
\* at the first ? and, the star being greedy, ends at the last ? that no
\* colon separates from it
RECURSIVE TernaryMatches(_, _)
TernaryMatches(code, k) ==
  LET starts == {i \in k..Len(code) : code[i] = "?"}
      i == CHOOSE a \in starts : \A b \in starts : a =< b
      ends == {j \in (i + 1)..Len(code) :
                 code[j] = "?" /\ \A m \in (i + 1)..j : code[m] # ":"}
      j == CHOOSE a \in ends : \A b \in ends : b =< a
  IN  IF starts = {} THEN 0
      ELSE IF ends = {} THEN TernaryMatches(code, i + 1)
      ELSE 1 + TernaryMatches(code, j + 1)

MeasureNestingDepth(code) ==
  LET max_depth == TrackDepth(code, 1, 0, 0)
      ternary_depth == TernaryMatches(code, 1)
  IN  IF max_depth > ternary_depth + 1 THEN max_depth ELSE ternary_depth + 1

MaxTextLen == 4

Texts == UNION {[1..n -> {"(", ")", "{", "]", "?", ":", "x"}] : n \in 0..MaxTextLen}

NestingCalls == {Call("_measure_nesting_depth", [code |-> t]) : t \in Texts}

MeasureNestingCall ==
  /\ fcall.fn = "_measure_nesting_depth"
  /\ ~fcall.done
  /\ Return(MeasureNestingDepth(fcall.args.code))

\* the running counter of the claim after the first k characters
RECURSIVE Counter(_)
Counter(k) ==
  IF k = 0 THEN 0
  ELSE IF fcall.args.code[k] \in {"(", "[", "{"} THEN Counter(k - 1) + 1
  ELSE IF fcall.args.code[k] \in {")", "]", "}"} /\ Counter(k - 1) > 0 THEN Counter(k - 1) - 1
  ELSE Counter(k - 1)

\* the chained ternaries: the stretches between colons that hold two ?
\* or more
ChainedTernaries ==
  LET code == fcall.args.code
      n == Len(code)
      Starts == {a \in 1..(n + 1) : a = 1 \/ code[a - 1] = ":"}
      Stretch(a) == {i \in a..n : code[i] = "?" /\ \A m \in a..i : code[m] # ":"}
  IN  Cardinality({a \in Starts : Cardinality(Stretch(a)) >= 2})

\* C25: the result is the larger of the largest value the floored counter
\* reaches and the chained-ternary count plus 1, hence at least 1
C25_NestingDepth ==
  Returned_("_measure_nesting_depth")
    => /\ \A k \in 0..Len(fcall.args.code) : Counter(k) >= 0
       /\ \E k \in 0..Len(fcall.args.code) :
            /\ \A m \in 0..Len(fcall.args.code) : Counter(m) =< Counter(k)
            /\ fcall.out = IF Counter(k) > ChainedTernaries + 1
                           THEN Counter(k) ELSE ChainedTernaries + 1
       /\ fcall.out >= 1

\* closing brackets first: the counter stays at 0 and then climbs to 2
C25_Witness ==
  /\ Returned_("_measure_nesting_depth")
  /\ fcall.args.code = <<")", "]", "(", "{">>
  /\ fcall.out = 2

(***************************************************************************)
(* The order of the steps of an attempt                                    *)
(***************************************************************************)
StepOrder ==
  <<"select_concepts", "select_trap", "generate_code", "validate_code",
    "run_interpreter", "generate_distractors", "validate_distractors",
    "analyze_difficulty", "question_text", "score_question">>

\* C26: the steps an attempt has run are an initial part of the fixed order,
\* so each ran at most once; the interpreter is invoked only on code that
\* passed static validation, in one of at most max_retries attempts, and
\* the one program counter is at one step at a time
C26_StepOrder ==
  /\ Len(att.steps) =< Len(StepOrder)
  /\ att.steps = SubSeq(StepOrder, 1, Len(att.steps))
  /\ ppc = "run_interpreter"
       => /\ att.code_valid
          /\ att.steps = SubSeq(StepOrder, 1, 4)
  /\ (\E k \in 1..Len(att.steps) : att.steps[k] = "run_interpreter") => att.code_valid
  /\ ppc \notin {"idle", "loop", "returned"} => attempt >= 1 /\ attempt =< max_retries
  /\ attempt =< max_retries

\* a question returned by the second attempt, all ten steps run in order
C26_Witness ==
  /\ ppc = "returned"
  /\ ret.kind = "question"
  /\ attempt = 2
  /\ att.steps = StepOrder

(***************************************************************************)
(* CodeGenerator.generate_code with an LLM                                 *)
(* A response of the LLM is an input: whether llm.generate raised, whether *)
(* the text is JSON and its 'code' field, whether it holds "const" or      *)
(* "function", and the block between its first two fences, a leading       *)
(* language name dropped.  JSON that is no object raises AttributeError    *)
(* past the inner except clause and counts as a raise.                     *)
(***************************************************************************)
sListCall == <<"l", "i", "s", "t", "(", ")">>

\* code.replace('list()', 'null'), on the texts of the model
ReplaceListCall(code) ==
  IF code = sListCall THEN sNull
  ELSE IF Len(code) > 6 /\ SubSeq(code, 1, 6) = sListCall
  THEN sNull \o SubSeq(code, 7, Len(code))
  ELSE code

\* lines 322-327 and 343-350: the closing ; and the auto-fix
PostProcess(code) ==
  ReplaceListCall(IF code = <<>> \/ code[Len(code)] # ";" THEN code \o <<";">> ELSE code)

\* a reading of the response that hands back the 'code' field as it came
ExtractCodeUnchecked(response) ==
  IF response.kind = "raises" THEN [ok |-> FALSE, code |-> <<>>]
  ELSE [ok |-> TRUE, code |-> Strip(response.code)]

\* lines 304-355: the code one response yields, if any
ExtractCode(response) ==
  IF response.kind = "raises" THEN [ok |-> FALSE, code |-> <<>>]
  ELSE IF response.kind = "json" /\ Strip(response.code) # <<>>
  THEN [ok |-> TRUE, code |-> PostProcess(Strip(response.code))]
  ELSE IF response.kind \in {"json", "text"} /\ response.has_keyword /\ response.has_fence
  THEN [ok |-> TRUE, code |-> PostProcess(Strip(response.block))]
  ELSE [ok |-> FALSE, code |-> <<>>]

\* lines 291-363: the attempts from k on
RECURSIVE SelfCorrect(_, _, _)
SelfCorrect(responses, k, max_self_corrections) ==
  IF k > max_self_corrections + 1 THEN [found |-> FALSE, code |-> <<>>, llm_calls |-> k - 1]
  ELSE IF ExtractCode(responses[k]).ok
  THEN [found |-> TRUE, code |-> ExtractCode(responses[k]).code, llm_calls |-> k]
  ELSE SelfCorrect(responses, k + 1, max_self_corrections)

GenerateCodeWithLlm(a) ==
  LET fallback == GenerateFallbackCode(a.concepts, a.chapter, NoSeed, a.draw)
      tried == SelfCorrect(a.responses, 1, a.max_self_corrections)
  IN  IF ~a.available
      THEN [raised |-> fallback.raised, code |-> fallback.code, source |-> "fallback",
            llm_calls |-> 0]
      ELSE IF tried.found
      THEN [raised |-> "", code |-> tried.code, source |-> "llm", llm_calls |-> tried.llm_calls]
      ELSE [raised |-> fallback.raised, code |-> fallback.code, source |-> "fallback",
            llm_calls |-> tried.llm_calls]

Responses ==
  LET r(k, c, w, f, b) == [kind |-> k, code |-> c, has_keyword |-> w, has_fence |-> f, block |-> b]
  IN  { r("raises", <<>>, FALSE, FALSE, <<>>),
        r("json", <<"f", "(", "1", ")">>, FALSE, FALSE, <<>>),
        r("json", sListCall, FALSE, TRUE, <<>>),
        r("json", <<" ">>, FALSE, FALSE, <<>>),
        r("json", <<>>, TRUE, TRUE, <<" ">>),
        r("text", <<>>, TRUE, TRUE, <<"x", ";">>),
        r("text", <<>>, TRUE, FALSE, <<>>) }

MaxSelfCorrections == 2

\* one response per attempt of range(max_self_corrections + 1)
LlmCodeCalls ==
  UNION {{Call("generate_code_llm",
               [available |-> av, responses |-> rs, max_self_corrections |-> m,
                concepts |-> c, chapter |-> ch, draw |-> d]) :
            av \in BOOLEAN, rs \in [1..(m + 1) -> Responses],
            c \in {<<"recursion_process">>, <<"conditionals">>}, ch \in 1..4,
            d \in {0, MaxDraw}} : m \in 0..MaxSelfCorrections}

GenerateCodeCall ==
  /\ fcall.fn = "generate_code_llm"
  /\ ~fcall.done
  /\ Return(GenerateCodeWithLlm(fcall.args))

\* the claim's reading of "yields code": JSON with a non-blank 'code', or
\* text with a keyword and a fenced block
YieldsCode(r) ==
  \/ r.kind = "json" /\ \E k \in 1..Len(r.code) : r.code[k] # " "
  \/ r.kind # "raises" /\ r.has_keyword /\ r.has_fence

\* C27: generate_code returns a non-empty code string; without an LLM it
\* is the fallback template and the LLM is not called; with one, the LLM is
\* called at most max_self_corrections + 1 times, the first response that
\* yields code is returned, and the fallback is returned when none does
C27_GenerateCodeReturns ==
  Returned_("generate_code_llm")
    => LET a == fcall.args
           yielding == {k \in 1..(a.max_self_corrections + 1) : YieldsCode(a.responses[k])}
       IN  /\ fcall.out.raised = ""
           /\ fcall.out.code # <<>>
           /\ fcall.out.llm_calls =< a.max_self_corrections + 1
           /\ ~a.available => fcall.out.llm_calls = 0 /\ fcall.out.source = "fallback"
           /\ (a.available /\ yielding # {})
                => /\ fcall.out.source = "llm"
                   /\ fcall.out.llm_calls \in yielding
                   /\ \A k \in yielding : fcall.out.llm_calls =< k
           /\ (a.available /\ yielding = {})
                => /\ fcall.out.source = "fallback"
                   /\ fcall.out.llm_calls = a.max_self_corrections + 1

\* two failed attempts, then a JSON response whose empty 'code' is replaced
\* by the blank fenced block: the third call returns ";"
C27_Witness ==
  /\ Returned_("generate_code_llm")
  /\ fcall.args.available
  /\ fcall.out.llm_calls = 3
  /\ fcall.out.source = "llm"
  /\ fcall.out.code = <<";">>

\* C28: check_chapter_constraints is monotone in the chapter: code accepted
\* for a chapter is accepted for every later chapter of 1..4, and every
\* code is accepted for chapters 3 and 4
C28_MonotoneInChapter ==
  Returned_("check_chapter_constraints")
    => /\ fcall.out.valid
            => \A later \in Chapters :
                 later > fcall.args.chapter
                   => CheckChapterConstraints(fcall.args.code, later).valid
       /\ fcall.args.chapter \in {3, 4} => fcall.out.valid

\* code with a list() call and a loop, accepted for chapter 3 and rejected
\* for chapters 1 and 2 by different checks
C28_Witness ==
  /\ Returned_("check_chapter_constraints")
  /\ fcall.args.chapter = 3
  /\ fcall.out.valid
  /\ CheckChapterConstraints(fcall.args.code, 1).message = "list() not allowed"
  /\ CheckChapterConstraints(fcall.args.code, 2).message = "Loops not allowed"

\* code accepted for chapter 2 and, later, for 3 and 4, which chapter 1
\* rejects
C28_WitnessStep ==
  /\ Returned_("check_chapter_constraints")
  /\ fcall.args.chapter = 2
  /\ fcall.out.valid
  /\ ~CheckChapterConstraints(fcall.args.code, 1).valid

\* C29: a question returned with validate_quality set carries a quality
\* total that reached the configured quality_threshold and an 'acceptable'
\* flag that is true, whichever threshold is configured
C29_ReturnedIsAcceptable ==
  (ret.kind = "question" /\ validate_quality)
    => /\ ret.q.scored
       /\ ret.q.total_score >= quality_threshold
       /\ ret.q.acceptable

\* C30: when the correct answer spells one of the canonical complexity
\* classes, with or without spaces and in any letter case, no returned
\* distractor, the padded ones included, is the same class after
\* spaces are removed and letters upper-cased
C30_NoSameClassDistractor ==
  (Returned /\ correct_answer.t = "str"
     /\ \E c \in CanonicalClasses :
          NormalizeComplexity(correct_answer.s) = NormalizeComplexity(c))
    => \A k \in 1..Len(result) :
         result[k].value.t = "str"
           => NormalizeComplexity(result[k].value.s) # NormalizeComplexity(correct_answer.s)

(***************************************************************************)
(* One call of one function                                                *)
(***************************************************************************)
InitFn ==
  /\ \/ fcall \in InitCalls
     \/ fcall \in RunCalls
     \/ fcall \in CodeCalls
     \/ fcall \in QuestionCalls
     \/ fcall \in ConstraintCalls
     \/ fcall \in ClassifyCalls
     \/ fcall \in ParseCalls
     \/ fcall \in SelectCalls
     \/ fcall \in RecursionCalls
     \/ fcall \in TraceCalls
     \/ fcall \in ListCalls
     \/ fcall \in ScoreCalls
     \/ fcall \in NestingCalls
     \/ fcall \in LlmCodeCalls
  /\ num_questions = 0
  /\ batch_i = 0
  /\ questions = <<>>
  /\ bpc = "idle"
  /\ IdleDC
  /\ IdleVD
  /\ IdlePL

NextFn ==
  \/ Construct
  \/ RunCall
  \/ GenerateCodeTwice
  \/ TemplateQuestionTwice
  \/ CheckConstraintsCall
  \/ ClassifyCall
  \/ ParseCall
  \/ SelectConceptsCall
  \/ AnalyzeRecursionCall
  \/ EstimateTraceCall
  \/ ListRoundTripCall
  \/ ScoreQuestionCall
  \/ MeasureNestingCall
  \/ GenerateCodeCall

SpecFn == InitFn /\ [][NextFn]_vars

====
